---- MODULE Spec2Model ----
(***************************************************************************)
(* A model of the microps user-space TCP/IP stack: the IP route table, the *)
(* ARP cache and resolver, the IP output path, the L2 ingress queues and   *)
(* soft-IRQ dispatch, the UDP endpoint table and the TCP (RFC 793 passive  *)
(* open) connection state machine with its blocking socket calls.          *)
(*                                                                         *)
(* Representation of C values.  Multi-byte values kept in network byte     *)
(* order in memory (ip_addr_t, ports, header fields) are tuples of bytes   *)
(* in memory order.  A host-order uint32_t is a pair <<hi, lo>> of 16-bit  *)
(* halves (hi*65536 + lo), with arithmetic modulo 2^32.                    *)
(***************************************************************************)
EXTENDS Integers, Sequences, FiniteSets, TLC

VARIABLES
    ifaces,       \* ip.c `ifaces`: registered IP interfaces, head first
    routes,       \* ip.c `routes`: list of routes, head first
    routeRes      \* the last ip_route_lookup call and its result

routeVars == <<ifaces, routes, routeRes>>

VARIABLES
    devUp,        \* the devices whose flags have NET_DEVICE_FLAG_UP
    caches,       \* arp.c `caches`: the ARP cache array
    now,          \* the time of day, in seconds
    ticks,        \* number of times the clock has advanced
    timerLast,    \* net.c: `last` of the ARP timer
    txFrames,     \* the frames handed to device drivers by the step just taken
    arpHist,      \* history, per address: progress of an address resolution
    ipId,         \* ip.c ip_generate_id: `id`
    ipRes         \* the ip_output call just made and its result, until the caller takes it

ipVars == <<devUp, caches, now, ticks, timerLast, txFrames, arpHist, ipId, ipRes>>

VARIABLES
    protoQueues,   \* net.c: the input queue of each registered protocol
    softirqPending,\* INTR_IRQ_SOFTIRQ raised and not yet dispatched (signals do not count)
    intrUp,        \* the interrupt thread is running
    netSeen,       \* number of frames the drivers have passed to net_input_handler
    netAccepted,   \* history: per protocol, the entries net_input_handler queued
    netHandled,    \* history: per protocol, the entries its handler was called with
    softirqRuns,   \* history: number of runs of net_softirq_handler
    netShut        \* the position of the thread that has called net_shutdown

netVars == <<protoQueues, softirqPending, intrUp, netSeen, netAccepted, netHandled, softirqRuns,
             netShut>>

VARIABLES
    udpPcbs,       \* udp.c: pcbs[], each with state, local endpoint and receive queue
    loQueue,       \* UDP datagrams sent to the loopback device and not yet input
    udpRes,        \* the user command that has just returned
    udpCrashed,    \* the process was ended by a memory fault in udp_input
    udpThreads     \* the application threads and the call each one is in

udpVars == <<udpPcbs, loQueue, udpRes, udpCrashed, udpThreads>>

VARIABLES
    tcpPcbs,       \* tcp.c: pcbs[], with the waiter count of each sched_ctx
    tcpThreads,    \* the application threads and the call each one is in
    tcpOut,        \* segments passed to ip_output by the step just taken
    tcpRes,        \* the user command that has just returned
    tcpScript      \* history: progress of the handshake-and-data scenario

tcpVars == <<tcpPcbs, tcpThreads, tcpOut, tcpRes, tcpScript>>

VARIABLES
    rxRes,         \* the frame or datagram just received and what was done with it
    arpPend        \* the arp_input the interrupt thread is in, between its two locks

rxVars == <<rxRes, arpPend>>

vars == <<routeVars, ipVars, netVars, udpVars, tcpVars, rxVars>>

\* the variables an operation of one part of the stack leaves alone
RouteOnly == UNCHANGED <<ipVars, netVars, udpVars, tcpVars, rxVars>>
IpOnly == UNCHANGED <<routeVars, netVars, udpVars, tcpVars, rxVars>>
NetOnly == UNCHANGED <<routeVars, ipVars, udpVars, tcpVars, rxVars>>
UdpOnly ==
    UNCHANGED <<routeVars, netVars, tcpVars, rxVars, devUp, now, ticks, timerLast, txFrames,
                arpHist, ipRes>>
TcpOnly == UNCHANGED <<routeVars, ipVars, netVars, udpVars, rxVars>>
RxOnly == UNCHANGED <<routeVars, netVars, udpVars, tcpVars, arpPend>>

(***************************************************************************)
(* Integer helpers                                                         *)
(***************************************************************************)
Min(a, b) == IF a < b THEN a ELSE b

\* uint16_t in network byte order: <<high byte, low byte>>
hton16(n) == << n \div 256, n % 256 >>
ntoh16(b) == b[1] * 256 + b[2]

U16Mod == 65536

\* bitwise AND of two bytes (C operator & on uint8_t)
RECURSIVE BitAnd(_, _)
BitAnd(a, b) ==
    IF a = 0 \/ b = 0 THEN 0
    ELSE (a % 2) * (b % 2) + 2 * BitAnd(a \div 2, b \div 2)

\* number of one bits of a byte
RECURSIVE Bits8(_)
Bits8(a) == IF a = 0 THEN 0 ELSE (a % 2) + Bits8(a \div 2)

(***************************************************************************)
(* Host-order 32-bit unsigned integers: <<hi, lo>>                          *)
(***************************************************************************)
U32(n) == <<n \div U16Mod, n % U16Mod>>

Lt32(a, b) == a[1] < b[1] \/ (a[1] = b[1] /\ a[2] < b[2])
Le32(a, b) == a = b \/ Lt32(a, b)

\* a + b modulo 2^32 (uint32_t addition)
Add32(a, b) ==
    LET lo == a[2] + b[2]
        hi == a[1] + b[1] + (lo \div U16Mod)
    IN  <<hi % U16Mod, lo % U16Mod>>

\* a - b modulo 2^32 (uint32_t subtraction)
Sub32(a, b) ==
    LET borrow == IF a[2] < b[2] THEN 1 ELSE 0
        lo == a[2] + borrow * U16Mod - b[2]
        hi == a[1] - b[1] - borrow
    IN  <<(hi + U16Mod) % U16Mod, lo>>

(***************************************************************************)
(* IPv4 addresses (ip_addr_t): 4 bytes in network order                    *)
(***************************************************************************)
IP_ADDR_ANY == <<0, 0, 0, 0>>
IP_ADDR_BROADCAST == <<255, 255, 255, 255>>

\* C `a & b` on ip_addr_t
AddrAnd(a, b) ==
    << BitAnd(a[1], b[1]), BitAnd(a[2], b[2]), BitAnd(a[3], b[3]), BitAnd(a[4], b[4]) >>
\* C `a | b` and `~a` on ip_addr_t
AddrOr(a, b) ==
    << a[1] + b[1] - BitAnd(a[1], b[1]), a[2] + b[2] - BitAnd(a[2], b[2]),
       a[3] + b[3] - BitAnd(a[3], b[3]), a[4] + b[4] - BitAnd(a[4], b[4]) >>
AddrNot(a) == << 255 - a[1], 255 - a[2], 255 - a[3], 255 - a[4] >>

\* ntoh32 on a little-endian host: the big-endian value of the 4 bytes
ntoh32(a) == <<a[1] * 256 + a[2], a[3] * 256 + a[4]>>

\* number of one bits of a netmask
MaskBits(m) == Bits8(m[1]) + Bits8(m[2]) + Bits8(m[3]) + Bits8(m[4])

(***************************************************************************)
(* Network devices (net.c, ether.c, driver/loopback.c)                     *)
(***************************************************************************)
ETHER_ADDR_ANY == <<0, 0, 0, 0, 0, 0>>
ETHER_ADDR_BROADCAST == <<255, 255, 255, 255, 255, 255>>

\* the devices of the host: two Ethernet devices and the loopback device,
\* as ether_setup_helper and loopback_init set them up
Devices == { "net0", "net1", "lo" }

NetDevice(d) ==
    IF d = "lo"
    THEN [ type |-> "LOOPBACK", mtu |-> 65535, flags |-> { "LOOPBACK" },
           addr |-> ETHER_ADDR_ANY, broadcast |-> ETHER_ADDR_ANY ]
    ELSE [ type |-> "ETHERNET", mtu |-> 1500, flags |-> { "BROADCAST", "NEED_ARP" },
           addr |-> IF d = "net0" THEN <<0, 0, 94, 0, 83, 1>> ELSE <<0, 0, 94, 0, 83, 2>>,
           broadcast |-> ETHER_ADDR_BROADCAST ]

(***************************************************************************)
(* IP interfaces and the route table (ip.c)                                *)
(***************************************************************************)
\* bound on the number of routes added at startup
MaxRoutes == 3

\* interface addresses and netmasks offered to ip_iface_alloc
RouteUnicasts == { <<192, 0, 2, 2>>, <<10, 0, 2, 2>> }
RouteNetmasks == { <<255, 255, 255, 0>>, <<255, 0, 0, 0>>, <<255, 0, 255, 255>> }
RouteGateways == { <<192, 0, 2, 1>> }
\* destinations looked up
RouteDsts == { <<192, 0, 2, 42>>, <<8, 8, 8, 8>>, <<10, 0, 2, 9>>, <<10, 0, 2, 2>> }

\* ip_iface_alloc, and net_device_add_iface setting iface->dev: the
\* interface record built from unicast and netmask
IpIface(dev, unicast, netmask) ==
    [ dev |-> dev, family |-> "IP", unicast |-> unicast, netmask |-> netmask,
      broadcast |-> AddrOr(AddrAnd(unicast, netmask), AddrNot(netmask)) ]

\* net_device_get_iface(dev, NET_IFACE_FAMILY_IP) over the registered
\* interfaces: the set holding the IP interface of dev, empty if none
net_device_get_iface(fs, dev) == { fs[i] : i \in { j \in 1..Len(fs) : fs[j].dev = dev } }

\* ip_route_add: the new route is linked at the head of the list
ip_route_add(rs, network, netmask, nexthop, iface) ==
    << [ network |-> network, netmask |-> netmask,
         nexthop |-> nexthop, iface |-> iface ] >> \o rs

\* the loop of ip_route_lookup over the list from position i with the
\* current candidate (0 = NULL); returns the position of the selected route
RECURSIVE RouteScanMut(_, _, _, _)
RouteScanMut(rs, dst, i, cand) ==
    IF i > Len(rs) THEN cand
    ELSE IF AddrAnd(dst, rs[i].netmask) = rs[i].network
            /\ (cand = 0 \/ Le32(ntoh32(rs[cand].netmask), ntoh32(rs[i].netmask)))
         THEN RouteScanMut(rs, dst, i + 1, i)
         ELSE RouteScanMut(rs, dst, i + 1, cand)

RECURSIVE RouteScan(_, _, _, _)
RouteScan(rs, dst, i, cand) ==
    IF i > Len(rs) THEN cand
    ELSE IF AddrAnd(dst, rs[i].netmask) = rs[i].network
            /\ (cand = 0 \/ Lt32(ntoh32(rs[cand].netmask), ntoh32(rs[i].netmask)))
         THEN RouteScan(rs, dst, i + 1, i)
         ELSE RouteScan(rs, dst, i + 1, cand)

\* ip_route_lookup: position in the list of the route selected for dst, 0 = NULL
ip_route_lookup(rs, dst) == RouteScan(rs, dst, 1, 0)

\* no lookup made since the table last changed
RouteResNone == [ done |-> FALSE, dst |-> IP_ADDR_ANY, table |-> << >>, pos |-> 0 ]

InitRoute ==
    /\ ifaces = << >>
    /\ routes = << >>
    /\ routeRes = RouteResNone

\* ip_iface_register: registers the connected route of the interface
IpIfaceRegister ==
    /\ Len(routes) < MaxRoutes
    /\ \E d \in Devices, u \in RouteUnicasts, m \in RouteNetmasks :
          /\ net_device_get_iface(ifaces, d) = {}
          /\ routes' = ip_route_add(routes, AddrAnd(u, m), m, IP_ADDR_ANY, IpIface(d, u, m))
          /\ ifaces' = << IpIface(d, u, m) >> \o ifaces
    /\ routeRes' = RouteResNone
    /\ RouteOnly

\* ip_route_set_default_gateway on the interface of an existing route
IpRouteSetDefaultGateway ==
    /\ Len(routes) < MaxRoutes
    /\ \E i \in 1..Len(routes), gw \in RouteGateways :
          routes' = ip_route_add(routes, IP_ADDR_ANY, IP_ADDR_ANY, gw, routes[i].iface)
    /\ routeRes' = RouteResNone
    /\ RouteOnly
    /\ UNCHANGED ifaces

\* a call of ip_route_lookup(dst); the call and its result are recorded
IpRouteLookup ==
    /\ \E dst \in RouteDsts :
          routeRes' = [ done |-> TRUE, dst |-> dst, table |-> routes, pos |-> ip_route_lookup(routes, dst) ]
    /\ UNCHANGED <<ifaces, routes>>
    /\ RouteOnly

NextRoute ==
    \/ IpIfaceRegister
    \/ IpRouteSetDefaultGateway
    \/ IpRouteLookup

(***************************************************************************)
(* ARP cache (arp.c).  A struct timeval is modelled by its whole seconds:  *)
(* all events are observed on second boundaries (tv_usec = 0).             *)
(***************************************************************************)
ARP_HDR_ETHER == 1
ARP_PRO_IP == 2048
ARP_OP_REQUEST == 1
ARP_OP_REPLY == 2
ARP_CACHE_TIMEOUT == 30
ETHER_ADDR_LEN == 6
IP_ADDR_LEN == 4
\* sizeof(ETHER_ADDR_LEN), sizeof(ETHER_ADDR_STR_LEN), sizeof(IP_ADDR_LEN):
\* the size of an int constant
SizeofInt == 4
\* sizeof(struct arp_ether_ip)
ArpMsgSize == 28

\* number of entries of the cache array
ArpCacheSize == 2

ArpCacheFree ==
    [ state |-> "FREE", pa |-> IP_ADDR_ANY, ha |-> ETHER_ADDR_ANY, timestamp |-> 0 ]

\* memcpy(dst, src, n) on byte arrays
Memcpy(dst, src, n) == SubSeq(src, 1, n) \o SubSeq(dst, n + 1, Len(dst))

\* arp_cache_delete
arp_cache_delete(cs, i) == [ cs EXCEPT ![i] = ArpCacheFree ]

\* arp_cache_alloc: index of the first FREE entry, else of the entry with the
\* oldest timestamp (the first of them)
RECURSIVE ArpAllocScan(_, _, _)
ArpAllocScan(cs, i, oldest) ==
    IF i > ArpCacheSize THEN oldest
    ELSE IF cs[i].state = "FREE" THEN i
    ELSE IF oldest = 0 \/ cs[oldest].timestamp > cs[i].timestamp
         THEN ArpAllocScan(cs, i + 1, i)
         ELSE ArpAllocScan(cs, i + 1, oldest)

arp_cache_alloc(cs) == ArpAllocScan(cs, 1, 0)

\* the cache after arp_cache_alloc: an evicted entry has been deleted
ArpCacheAfterAlloc(cs) ==
    IF cs[arp_cache_alloc(cs)].state = "FREE" THEN cs
    ELSE arp_cache_delete(cs, arp_cache_alloc(cs))

\* arp_cache_select: index of the first non-FREE entry for pa, 0 = NULL
RECURSIVE ArpSelectScan(_, _, _)
ArpSelectScan(cs, pa, i) ==
    IF i > ArpCacheSize THEN 0
    ELSE IF cs[i].state # "FREE" /\ cs[i].pa = pa THEN i
    ELSE ArpSelectScan(cs, pa, i + 1)

arp_cache_select(cs, pa) == ArpSelectScan(cs, pa, 1)

\* arp_cache_update variant that leaves the state of the entry untouched
arp_cache_update_keepstate(cs, pa, ha, t) ==
    IF arp_cache_select(cs, pa) = 0 THEN cs
    ELSE [ cs EXCEPT ![arp_cache_select(cs, pa)] =
              [ @ EXCEPT !.ha = Memcpy(@, ha, SizeofInt), !.timestamp = t ] ]

\* arp_cache_update: the cache after the call (unchanged when it returns NULL)
arp_cache_update(cs, pa, ha, t) ==
    IF arp_cache_select(cs, pa) = 0 THEN cs
    ELSE [ cs EXCEPT ![arp_cache_select(cs, pa)] =
              [ @ EXCEPT !.ha = Memcpy(@, ha, SizeofInt),
                         !.state = "RESOLVED",
                         !.timestamp = t ] ]

\* arp_cache_insert: the cache after the call
arp_cache_insert(cs, pa, ha, t) ==
    [ ArpCacheAfterAlloc(cs) EXCEPT ![arp_cache_alloc(cs)] =
         [ state |-> "RESOLVED", pa |-> pa,
           ha |-> Memcpy(ArpCacheAfterAlloc(cs)[arp_cache_alloc(cs)].ha, ha, SizeofInt),
           timestamp |-> t ] ]

\* the loop of arp_timer_handler at time t
arp_timer_sweep(cs, t) ==
    [ i \in 1..ArpCacheSize |->
        IF cs[i].state # "FREE" /\ cs[i].state # "STATIC"
           /\ t - cs[i].timestamp > ARP_CACHE_TIMEOUT
        THEN ArpCacheFree
        ELSE cs[i] ]

(***************************************************************************)
(* Device output, ARP messages and the resolver (net.c, arp.c)             *)
(***************************************************************************)
ARP_RESOLVE_ERROR == -1
ARP_RESOLVE_INCOMPLETE == 0
ARP_RESOLVE_FOUND == 1

\* net_device_output: the result and the frames handed to the driver's
\* transmit function; txOk is the outcome of the driver's transmit
net_device_output(up, dev, type, data, len, dst, txOk) ==
    IF dev \notin up \/ len > NetDevice(dev).mtu
    THEN [ ret |-> -1, frames |-> << >> ]
    ELSE [ ret |-> IF txOk THEN 0 ELSE -1,
           frames |-> << [ dev |-> dev, type |-> type, dst |-> dst,
                           data |-> data, len |-> len ] >> ]

\* a byte of an uninitialised object: its value is indeterminate
Indeterminate == -1
Uninit6 == << Indeterminate, Indeterminate, Indeterminate,
              Indeterminate, Indeterminate, Indeterminate >>

\* arp_request; the message is built in an uninitialised buffer
arp_request(up, iface, tpa, txOk) ==
    net_device_output(up, iface.dev, "ARP",
        [ hrd |-> ARP_HDR_ETHER, pro |-> ARP_PRO_IP,
          hln |-> ETHER_ADDR_LEN, pln |-> IP_ADDR_LEN, op |-> ARP_OP_REQUEST,
          sha |-> NetDevice(iface.dev).addr, spa |-> iface.unicast,
          tha |-> Memcpy(Uninit6, ETHER_ADDR_ANY, SizeofInt),
          tpa |-> Memcpy(IP_ADDR_ANY, tpa, SizeofInt) ],
        ArpMsgSize, NetDevice(iface.dev).broadcast, txOk)

\* arp_reply variant that addresses the reply to the broadcast address
arp_reply_broadcast(up, iface, tha, tpa, dst, txOk) ==
    net_device_output(up, iface.dev, "ARP",
        [ hrd |-> ARP_HDR_ETHER, pro |-> ARP_PRO_IP,
          hln |-> ETHER_ADDR_LEN, pln |-> IP_ADDR_LEN, op |-> ARP_OP_REPLY,
          sha |-> NetDevice(iface.dev).addr, spa |-> iface.unicast,
          tha |-> tha, tpa |-> tpa ],
        ArpMsgSize, NetDevice(iface.dev).broadcast, txOk)

\* arp_reply
arp_reply(up, iface, tha, tpa, dst, txOk) ==
    net_device_output(up, iface.dev, "ARP",
        [ hrd |-> ARP_HDR_ETHER, pro |-> ARP_PRO_IP,
          hln |-> ETHER_ADDR_LEN, pln |-> IP_ADDR_LEN, op |-> ARP_OP_REPLY,
          sha |-> NetDevice(iface.dev).addr, spa |-> iface.unicast,
          tha |-> tha, tpa |-> tpa ],
        ArpMsgSize, dst, txOk)

\* arp_resolve at time t: return value, cache after the call, frames handed
\* to the device and the hardware address copied to the caller
arp_resolve(cs, up, iface, pa, t, txOk) ==
    IF NetDevice(iface.dev).type # "ETHERNET" \/ iface.family # "IP"
    THEN [ ret |-> ARP_RESOLVE_ERROR, cache |-> cs, frames |-> << >>, ha |-> ETHER_ADDR_ANY ]
    ELSE IF arp_cache_select(cs, pa) = 0
    THEN [ ret |-> ARP_RESOLVE_INCOMPLETE,
           cache |-> [ ArpCacheAfterAlloc(cs) EXCEPT ![arp_cache_alloc(cs)] =
                          [ @ EXCEPT !.state = "INCOMPLETE", !.pa = pa, !.timestamp = t ] ],
           frames |-> arp_request(up, iface, pa, txOk).frames,
           ha |-> ETHER_ADDR_ANY ]
    ELSE IF cs[arp_cache_select(cs, pa)].state = "INCOMPLETE"
    THEN [ ret |-> ARP_RESOLVE_INCOMPLETE, cache |-> cs,
           frames |-> arp_request(up, iface, pa, txOk).frames,
           ha |-> ETHER_ADDR_ANY ]
    ELSE [ ret |-> ARP_RESOLVE_FOUND, cache |-> cs, frames |-> << >>,
           ha |-> cs[arp_cache_select(cs, pa)].ha ]

(***************************************************************************)
(* IP output (ip.c)                                                        *)
(***************************************************************************)
IP_HDR_SIZE_MIN == 20

\* the call of arp_resolve made by ip_output_device, when it makes one
IpResolve(cs, up, iface, dst, t, txOk) ==
    IF "NEED_ARP" \in NetDevice(iface.dev).flags
       /\ dst # iface.broadcast /\ dst # IP_ADDR_BROADCAST
    THEN [ called |-> TRUE ] @@ arp_resolve(cs, up, iface, dst, t, txOk)
    ELSE [ called |-> FALSE, ret |-> ARP_RESOLVE_FOUND, cache |-> cs, frames |-> << >>,
           ha |-> IF "NEED_ARP" \in NetDevice(iface.dev).flags
                  THEN NetDevice(iface.dev).broadcast ELSE ETHER_ADDR_ANY ]

\* ip_output_device: return value, cache after the call, frames handed to
\* the device, and the resolver's part in it
ip_output_device(cs, up, iface, data, len, dst, t, txOk) ==
    LET r == IpResolve(cs, up, iface, dst, t, txOk)
        o == net_device_output(up, iface.dev, "IP", data, len, r.ha, txOk)
    IN  IF r.called /\ r.ret # ARP_RESOLVE_FOUND
        THEN [ ret |-> r.ret, cache |-> r.cache, frames |-> r.frames,
               arpCalled |-> TRUE, arpRet |-> r.ret ]
        ELSE [ ret |-> o.ret, cache |-> r.cache, frames |-> o.frames,
               arpCalled |-> r.called, arpRet |-> r.ret ]

\* ip_output_core: builds the datagram and sends it to nexthop
ip_output_core(cs, up, iface, protocol, len, src, dst, nexthop, id, t, txOk) ==
    ip_output_device(cs, up, iface,
        [ protocol |-> protocol, total |-> (IP_HDR_SIZE_MIN + len) % U16Mod, id |-> id,
          offset |-> 0, ttl |-> 255, src |-> src, dst |-> dst, len |-> len ],
        (IP_HDR_SIZE_MIN + len) % U16Mod, nexthop, t, txOk)

\* variant of ip_output that sends every datagram to dst itself
ip_output_direct(rs, cs, up, protocol, len, src, dst, id, t, txOk) ==
    LET pos == ip_route_lookup(rs, dst)
        iface == rs[pos].iface
        nexthop == dst
        r == ip_output_core(cs, up, iface, protocol, len, iface.unicast, dst, nexthop,
                            id, t, txOk)
        failed == [ ret |-> -1, cache |-> cs, frames |-> << >>, id |-> id,
                    arpCalled |-> FALSE, arpRet |-> ARP_RESOLVE_FOUND, nexthop |-> dst ]
    IN  IF src = IP_ADDR_ANY /\ dst = IP_ADDR_BROADCAST THEN failed
        ELSE IF pos = 0 THEN failed
        ELSE IF src # IP_ADDR_ANY /\ src # iface.unicast THEN failed
        ELSE IF NetDevice(iface.dev).mtu < IP_HDR_SIZE_MIN + len THEN failed
        ELSE [ ret |-> IF r.ret = -1 THEN -1 ELSE len,
               cache |-> r.cache, frames |-> r.frames, id |-> (id + 1) % U16Mod,
               arpCalled |-> r.arpCalled, arpRet |-> r.arpRet, nexthop |-> nexthop ]

\* ip_output: return value, cache after the call, frames handed to devices,
\* the id counter after the call, and the resolver's part in it
ip_output(rs, cs, up, protocol, len, src, dst, id, t, txOk) ==
    LET pos == ip_route_lookup(rs, dst)
        iface == rs[pos].iface
        nexthop == IF rs[pos].nexthop # IP_ADDR_ANY THEN rs[pos].nexthop ELSE dst
        r == ip_output_core(cs, up, iface, protocol, len, iface.unicast, dst, nexthop,
                            id, t, txOk)
        failed == [ ret |-> -1, cache |-> cs, frames |-> << >>, id |-> id,
                    arpCalled |-> FALSE, arpRet |-> ARP_RESOLVE_FOUND, nexthop |-> dst ]
    IN  IF src = IP_ADDR_ANY /\ dst = IP_ADDR_BROADCAST THEN failed
        ELSE IF pos = 0 THEN failed
        ELSE IF src # IP_ADDR_ANY /\ src # iface.unicast THEN failed
        ELSE IF NetDevice(iface.dev).mtu < IP_HDR_SIZE_MIN + len THEN failed
        ELSE [ ret |-> IF r.ret = -1 THEN -1 ELSE len,
               cache |-> r.cache, frames |-> r.frames, id |-> (id + 1) % U16Mod,
               arpCalled |-> r.arpCalled, arpRet |-> r.arpRet, nexthop |-> nexthop ]

(***************************************************************************)
(* The host of the IP/ARP specification: net0 192.0.2.2/24 with default    *)
(* gateway 192.0.2.1, loopback 127.0.0.1/8, net1 without an IP interface   *)
(***************************************************************************)
HostNet0 == IpIface("net0", <<192, 0, 2, 2>>, <<255, 255, 255, 0>>)
HostLo == IpIface("lo", <<127, 0, 0, 1>>, <<255, 0, 0, 0>>)
HostIfaces == << HostNet0, HostLo >>
HostRoutes ==
    ip_route_add(
        ip_route_add(
            ip_route_add(<< >>, AddrAnd(HostLo.unicast, HostLo.netmask), HostLo.netmask,
                         IP_ADDR_ANY, HostLo),
            AddrAnd(HostNet0.unicast, HostNet0.netmask), HostNet0.netmask, IP_ADDR_ANY, HostNet0),
        IP_ADDR_ANY, IP_ADDR_ANY, <<192, 0, 2, 1>>, HostNet0)

\* bounds: clock advances, and calls of ip_output that reach ip_generate_id
MaxTicks == 2
MaxIpOutputs == 2
\* the clock is observed once per period of the cache timeout
TickStep == ARP_CACHE_TIMEOUT
IpIdStart == 128
ArpTimerInterval == 1

\* inputs of ip_output
IpProtocols == { 17 }
IpLens == { 64, 1481 }
IpSrcs == { IP_ADDR_ANY, <<192, 0, 2, 2>>, <<192, 0, 2, 99>> }
IpDsts == { <<192, 0, 2, 1>>, <<192, 0, 2, 3>>, <<8, 8, 8, 8>>, <<192, 0, 2, 255>>,
            <<127, 0, 0, 1>>, IP_ADDR_BROADCAST }

\* the addresses ip_output may have to resolve, and the senders of ARP messages
ResolveAddrs == { <<192, 0, 2, 1>>, <<192, 0, 2, 3>> }
ArpAddrs == ResolveAddrs \cup { <<192, 0, 2, 9>> }
\* the hardware address of the station with protocol address pa
PeerMac(pa) == << 2, 0, 94, 0, 83, pa[4] >>
ArpValidMsgs ==
    { [ hrd |-> ARP_HDR_ETHER, pro |-> ARP_PRO_IP, hln |-> ETHER_ADDR_LEN,
        pln |-> IP_ADDR_LEN, op |-> op, sha |-> PeerMac(spa), spa |-> spa,
        tha |-> NetDevice("net0").addr, tpa |-> tpa ] :
      op \in { ARP_OP_REQUEST, ARP_OP_REPLY }, spa \in ArpAddrs,
      tpa \in { <<192, 0, 2, 2>>, <<192, 0, 2, 7>> } }
\* the devices ARP messages arrive on
ArpInputDevs == { "net0" }
ArpBadMsg(hrd, pro, hln, pln) ==
    [ hrd |-> hrd, pro |-> pro, hln |-> hln, pln |-> pln, op |-> ARP_OP_REPLY,
      sha |-> <<0, 0, 94, 0, 83, 17>>, spa |-> <<192, 0, 2, 1>>,
      tha |-> NetDevice("net0").addr, tpa |-> <<192, 0, 2, 2>> ]
ArpMsgs ==
    ArpValidMsgs \cup { ArpBadMsg(6, ARP_PRO_IP, ETHER_ADDR_LEN, IP_ADDR_LEN),
                        ArpBadMsg(ARP_HDR_ETHER, 34525, ETHER_ADDR_LEN, 16) }
ArpInputs ==
    { <<m, ArpMsgSize>> : m \in ArpMsgs }
        \cup { <<ArpBadMsg(ARP_HDR_ETHER, ARP_PRO_IP, ETHER_ADDR_LEN, IP_ADDR_LEN), ArpMsgSize - 1>> }

IpResNone ==
    [ done |-> FALSE, len |-> 0, dst |-> IP_ADDR_ANY, nexthop |-> IP_ADDR_ANY, ret |-> 0,
      arpCalled |-> FALSE, arpRet |-> ARP_RESOLVE_FOUND, arpPrior |-> "idle" ]

InitIp ==
    /\ devUp = {}
    /\ caches = [ i \in 1..ArpCacheSize |-> ArpCacheFree ]
    /\ now = 0
    /\ ticks = 0
    /\ timerLast = 0
    /\ txFrames = << >>
    /\ arpHist = [ pa \in ResolveAddrs |-> "idle" ]
    /\ ipId = IpIdStart
    /\ ipRes = IpResNone

\* history: an address whose resolution was answered loses that standing
\* when an entry for it is deleted from the cache (timeout or eviction)
ArpDropped(hist, cs, csNew) ==
    [ pa \in ResolveAddrs |->
        IF hist[pa] = "answered"
           /\ \E i \in 1..ArpCacheSize :
                 /\ cs[i].state # "FREE" /\ cs[i].pa = pa
                 /\ (csNew[i].state = "FREE" \/ csNew[i].pa # pa)
        THEN "dropped"
        ELSE hist[pa] ]

\* the outputs of the previous step have been consumed
Quiet == txFrames = << >> /\ ~ipRes.done /\ ~rxRes.done

\* a call of ip_output by an application thread
IpOutput ==
    /\ Quiet
    /\ ipId < IpIdStart + MaxIpOutputs
    /\ \E protocol \in IpProtocols, len \in IpLens, src \in IpSrcs, dst \in IpDsts,
          txOk \in BOOLEAN :
          \E r \in { ip_output(routes, caches, devUp, protocol, len, src, dst, ipId, now,
                               txOk) } :
          \E h \in { ArpDropped(arpHist, caches, r.cache) } :
              /\ caches' = r.cache
              /\ txFrames' = r.frames
              /\ ipId' = r.id
              /\ ipRes' = [ done |-> TRUE, len |-> len, dst |-> dst, nexthop |-> r.nexthop,
                            ret |-> r.ret, arpCalled |-> r.arpCalled, arpRet |-> r.arpRet,
                            arpPrior |-> IF r.arpCalled /\ r.nexthop \in ResolveAddrs
                                         THEN arpHist[r.nexthop] ELSE "idle" ]
              /\ arpHist' = IF r.arpCalled /\ r.nexthop \in ResolveAddrs
                            THEN [ h EXCEPT ![r.nexthop] =
                                      IF r.arpRet = ARP_RESOLVE_INCOMPLETE
                                      THEN "asked" ELSE "idle" ]
                            ELSE h
    /\ UNCHANGED <<devUp, now, ticks, timerLast>>
    /\ IpOnly

\* arp_input called by the soft-IRQ handler for a message received on dev;
\* its two critical sections are taken as one step
ArpInputStep(dev, in, txOk) ==
    /\ Quiet
    /\    \E msg \in { in[1] }, len \in { in[2] },
             fs \in { net_device_get_iface(ifaces, dev) } :
          \E target \in { \E f \in fs : f.unicast = msg.tpa },
             merge \in { arp_cache_select(caches, msg.spa) # 0 } :
          \E cs \in { IF merge THEN arp_cache_update(caches, msg.spa, msg.sha, now)
                      ELSE IF target THEN arp_cache_insert(caches, msg.spa, msg.sha, now)
                      ELSE caches } :
          \E h \in { ArpDropped(arpHist, caches, cs) } :
              IF \/ len < ArpMsgSize
                 \/ msg.hrd # ARP_HDR_ETHER \/ msg.hln # ETHER_ADDR_LEN
                 \/ msg.pro # ARP_PRO_IP \/ msg.pln # IP_ADDR_LEN
              THEN UNCHANGED <<caches, arpHist, txFrames>>
              ELSE /\ caches' = cs
                   /\ txFrames' = IF target /\ msg.op = ARP_OP_REQUEST
                                  THEN arp_reply(devUp, CHOOSE f \in fs : TRUE, msg.sha,
                                                 msg.spa, msg.sha, txOk).frames
                                  ELSE << >>
                   /\ arpHist' = IF target /\ msg.op = ARP_OP_REPLY
                                    /\ msg.spa \in ResolveAddrs /\ h[msg.spa] = "asked"
                                 THEN [ h EXCEPT ![msg.spa] = "answered" ]
                                 ELSE h
    /\ UNCHANGED <<devUp, now, ticks, timerLast, ipId, ipRes>>
    /\ IpOnly

ArpInput ==
    \E dev \in ArpInputDevs, in \in ArpInputs, txOk \in BOOLEAN :
        ArpInputStep(dev, in, txOk)

\* variant of arp_input that goes on to its second part whatever the
\* target address of the message
ArpInputUpdateAnyTarget(dev, in) ==
    /\ Quiet
    /\ arpPend = << >>
    /\ \E msg \in { in[1] }, len \in { in[2] } :
          IF \/ len < ArpMsgSize
             \/ msg.hrd # ARP_HDR_ETHER \/ msg.hln # ETHER_ADDR_LEN
             \/ msg.pro # ARP_PRO_IP \/ msg.pln # IP_ADDR_LEN
          THEN UNCHANGED <<caches, arpPend>>
          ELSE /\ caches' = arp_cache_update(caches, msg.spa, msg.sha, now)
               /\ arpPend' = IF net_device_get_iface(ifaces, dev) # { }
                              THEN << [ dev |-> dev, msg |-> msg,
                                        merge |-> arp_cache_select(caches, msg.spa) # 0 ] >>
                              ELSE << >>
    /\ UNCHANGED <<devUp, now, ticks, timerLast, txFrames, arpHist, ipId, ipRes, rxRes>>
    /\ UNCHANGED <<routeVars, netVars, udpVars, tcpVars>>

\* arp_input up to the end of its first critical section: a message that
\* passes the checks updates the entry of its sender if there is one; when
\* the message is for the address of the interface the handler goes on
ArpInputUpdate(dev, in) ==
    /\ Quiet
    /\ arpPend = << >>
    /\ \E msg \in { in[1] }, len \in { in[2] } :
          IF \/ len < ArpMsgSize
             \/ msg.hrd # ARP_HDR_ETHER \/ msg.hln # ETHER_ADDR_LEN
             \/ msg.pro # ARP_PRO_IP \/ msg.pln # IP_ADDR_LEN
          THEN UNCHANGED <<caches, arpPend>>
          ELSE /\ caches' = arp_cache_update(caches, msg.spa, msg.sha, now)
               /\ arpPend' = IF \E f \in net_device_get_iface(ifaces, dev) :
                                    f.unicast = msg.tpa
                              THEN << [ dev |-> dev, msg |-> msg,
                                        merge |-> arp_cache_select(caches, msg.spa) # 0 ] >>
                              ELSE << >>
    /\ UNCHANGED <<devUp, now, ticks, timerLast, txFrames, arpHist, ipId, ipRes, rxRes>>
    /\ UNCHANGED <<routeVars, netVars, udpVars, tcpVars>>

\* arp_input from its second critical section on: the sender is inserted
\* if no entry was updated, and a request is answered
ArpInputInsert(txOk) ==
    /\ Quiet
    /\ arpPend # << >>
    /\ \E msg \in { arpPend[1].msg } :
       \E cs \in { IF arpPend[1].merge THEN caches
                   ELSE arp_cache_insert(caches, msg.spa, msg.sha, now) } :
       \E h \in { ArpDropped(arpHist, caches, cs) } :
          /\ caches' = cs
          /\ txFrames' = IF msg.op = ARP_OP_REQUEST
                         THEN arp_reply(devUp,
                                        CHOOSE f \in net_device_get_iface(ifaces, arpPend[1].dev) :
                                           TRUE,
                                        msg.sha, msg.spa, msg.sha, txOk).frames
                         ELSE << >>
          /\ arpHist' = IF msg.op = ARP_OP_REPLY
                           /\ msg.spa \in ResolveAddrs /\ h[msg.spa] = "asked"
                        THEN [ h EXCEPT ![msg.spa] = "answered" ]
                        ELSE h
    /\ arpPend' = << >>
    /\ UNCHANGED <<devUp, now, ticks, timerLast, ipId, ipRes, rxRes>>
    /\ UNCHANGED <<routeVars, netVars, udpVars, tcpVars>>

ArpInputFirst == \E dev \in ArpInputDevs, in \in ArpInputs : ArpInputUpdate(dev, in)
ArpInputSecond == \E txOk \in BOOLEAN : ArpInputInsert(txOk)

\* net_timer_handler called by the interrupt thread: fires the ARP timer
\* (arp_timer_handler) when its interval has passed
NetTimerHandler ==
    /\ Quiet
    /\ ArpTimerInterval < now - timerLast
    /\ caches' = arp_timer_sweep(caches, now)
    /\ timerLast' = now
    /\ arpHist' = ArpDropped(arpHist, caches, arp_timer_sweep(caches, now))
    /\ UNCHANGED <<devUp, now, ticks, txFrames, ipId, ipRes>>
    /\ IpOnly

\* time passes
Tick ==
    /\ Quiet
    /\ ticks < MaxTicks
    /\ now' = now + TickStep
    /\ ticks' = ticks + 1
    /\ UNCHANGED <<devUp, caches, timerLast, txFrames, arpHist, ipId, ipRes>>
    /\ IpOnly

\* net_run: opens every device
NetRun ==
    /\ Quiet
    /\ devUp = {}
    /\ devUp' = Devices
    /\ UNCHANGED <<caches, now, ticks, timerLast, txFrames, arpHist, ipId, ipRes>>
    /\ IpOnly

\* net_shutdown: closes every device
NetShutdown ==
    /\ Quiet
    /\ devUp = Devices
    /\ devUp' = {}
    /\ UNCHANGED <<caches, now, ticks, timerLast, txFrames, arpHist, ipId, ipRes>>
    /\ IpOnly

\* the outputs of a step are consumed: the caller of ip_output takes its
\* return value and the drivers put the frames on the wire
StepDone ==
    /\ ~Quiet
    /\ txFrames' = << >>
    /\ ipRes' = IpResNone
    /\ UNCHANGED <<devUp, caches, now, ticks, timerLast, arpHist, ipId>>
    /\ IpOnly

InitHost ==
    /\ ifaces = HostIfaces
    /\ routes = HostRoutes
    /\ routeRes = RouteResNone

\* the application threads in ip_output, the handler of received ARP
\* messages and the timer handler, one critical section at a time
NextArp ==
    \/ IpOutput
    \/ ArpInputFirst
    \/ ArpInputSecond
    \/ NetTimerHandler
    \/ Tick
    \/ NetRun
    \/ StepDone

NextIp ==
    \/ IpOutput
    \/ ArpInput
    \/ NetTimerHandler
    \/ Tick
    \/ NetRun
    \/ NetShutdown
    \/ StepDone

(***************************************************************************)
(* net.c: protocol input queues and the software interrupt                 *)
(***************************************************************************)
NET_PROTOCOL_TYPE_IP == 2048
NET_PROTOCOL_TYPE_ARP == 2054
NET_PROTOCOL_TYPE_IPV6 == 34525

MaxFrames == 4
\* sizeof(struct ether_hdr)
EtherHdrSize == 14

\* net_protocol_register: a type is registered once, new entries at the head
net_protocol_register(ps, type) ==
    IF \E i \in 1..Len(ps) : ps[i] = type THEN ps ELSE <<type>> \o ps

\* net_init: arp_init registers ARP, then ip_init registers IP
NetProtocols ==
    net_protocol_register(net_protocol_register(<< >>, NET_PROTOCOL_TYPE_ARP),
                          NET_PROTOCOL_TYPE_IP)

NetProtocolTypes == { NetProtocols[i] : i \in 1..Len(NetProtocols) }

\* util.c queue: entries leave in the order they were pushed
queue_push(q, entry) == Append(q, entry)

queue_pop(q) ==
    IF q = << >> THEN [ entry |-> << >>, queue |-> q ]
    ELSE [ entry |-> <<Head(q)>>, queue |-> Tail(q) ]

\* changed loop of net_softirq_handler: a single pop per protocol and run
NetSoftirqDrainOnce(q, handled) ==
    [ queue |-> queue_pop(q).queue, handled |-> handled \o queue_pop(q).entry ]

\* the loop of net_softirq_handler over one protocol: pop and call the
\* handler until the queue is empty
RECURSIVE NetSoftirqDrain(_, _)
NetSoftirqDrain(q, handled) ==
    IF queue_pop(q).entry = << >> THEN [ queue |-> q, handled |-> handled ]
    ELSE NetSoftirqDrain(queue_pop(q).queue, handled \o queue_pop(q).entry)

NetInputTypes == { NET_PROTOCOL_TYPE_IP, NET_PROTOCOL_TYPE_ARP, NET_PROTOCOL_TYPE_IPV6 }
NetInputDevs == { "net0", "lo" }
NetInputLens == { 28 }

\* net_shutdown has not been called; in a call, next is the position in
\* the device list of the device to close next, wasUp the devices that
\* were UP when it was called and closed those net_device_close has been
\* called for
NetShutIdle == [ pc |-> "idle", next |-> 0, wasUp |-> {}, closed |-> {} ]

InitNet ==
    /\ protoQueues = [ t \in NetProtocolTypes |-> << >> ]
    /\ softirqPending = FALSE
    /\ intrUp = TRUE
    /\ netSeen = 0
    /\ netAccepted = [ t \in NetProtocolTypes |-> << >> ]
    /\ netHandled = [ t \in NetProtocolTypes |-> << >> ]
    /\ softirqRuns = 0
    /\ netShut = NetShutIdle

\* net_input_handler, called by a driver's interrupt handler on the
\* interrupt thread; allocOk: memory_alloc and queue_push succeed
NetInputHandler ==
    /\ intrUp
    /\ netSeen < MaxFrames
    /\ \E type \in NetInputTypes, dev \in NetInputDevs, len \in NetInputLens, allocOk \in BOOLEAN :
          /\ netSeen' = netSeen + 1
          /\ IF type \in NetProtocolTypes /\ allocOk
             THEN \E entry \in { [ dev |-> dev, len |-> len, data |-> netSeen + 1,
                                    dst |-> NetDevice(dev).addr ] } :
                     /\ protoQueues' = [ protoQueues EXCEPT ![type] = queue_push(@, entry) ]
                     /\ netAccepted' = [ netAccepted EXCEPT ![type] = Append(@, entry) ]
                     /\ softirqPending' = TRUE
             ELSE UNCHANGED <<protoQueues, netAccepted, softirqPending>>
    /\ UNCHANGED <<intrUp, netHandled, softirqRuns, netShut>>
    /\ NetOnly

\* ether_input_helper for a frame read from dev: the call of
\* net_input_handler it makes ([ type, len ]), << >> if it makes none;
\* without the filter on the destination address
ether_input_helper_promiscuous(dev, frame) ==
    IF Len(frame) < EtherHdrSize THEN << >>
    ELSE << [ type |-> ntoh16(SubSeq(frame, 13, 14)), len |-> Len(frame) - EtherHdrSize ] >>
ether_input_helper(dev, frame) ==
    IF Len(frame) < EtherHdrSize THEN << >>
    ELSE IF SubSeq(frame, 1, ETHER_ADDR_LEN) # NetDevice(dev).addr
            /\ SubSeq(frame, 1, ETHER_ADDR_LEN) # ETHER_ADDR_BROADCAST THEN << >>
    ELSE << [ type |-> ntoh16(SubSeq(frame, 13, 14)), len |-> Len(frame) - EtherHdrSize ] >>

\* frames on the wire: for the device, for the other device (the address
\* differs in the last byte), for a station whose address differs in the
\* first byte, multicast and broadcast ones, and a truncated one
EtherInputDevs == { "net0" }
EtherFrames ==
    { dst \o <<0, 0, 94, 0, 83, 9>> \o hton16(type) \o [ i \in 1..n |-> 0 ] :
        dst \in { NetDevice("net0").addr, NetDevice("net1").addr, ETHER_ADDR_BROADCAST,
                  <<2, 0, 94, 0, 83, 1>>, <<1, 0, 94, 0, 0, 1>>,
                  <<255, 255, 255, 255, 255, 254>> },
        type \in { NET_PROTOCOL_TYPE_ARP }, n \in { 28 } }
    \cup { SubSeq(NetDevice("net0").addr \o <<0, 0, 94, 0, 83, 9>> \o hton16(NET_PROTOCOL_TYPE_IP),
                  1, EtherHdrSize - 1) }

\* the interrupt handler of an Ethernet driver: ether_input_helper and the
\* net_input_handler it calls
EtherInput ==
    /\ intrUp
    /\ netSeen < MaxFrames
    /\ \E dev \in EtherInputDevs, frame \in EtherFrames, allocOk \in BOOLEAN :
       \E call \in { ether_input_helper(dev, frame) } :
          /\ rxRes' = [ done |-> FALSE, op |-> "ether", dev |-> dev, in |-> frame,
                        delivered |-> call, out |-> << >>, ret |-> 0, crashed |-> FALSE ]
          /\ IF call = << >>
             THEN UNCHANGED <<netSeen, protoQueues, netAccepted, softirqPending>>
             ELSE /\ netSeen' = netSeen + 1
                  /\ IF call[1].type \in NetProtocolTypes /\ allocOk
                     THEN \E entry \in { [ dev |-> dev, len |-> call[1].len, data |-> netSeen + 1,
                                            dst |-> SubSeq(frame, 1, ETHER_ADDR_LEN) ] } :
                             /\ protoQueues' = [ protoQueues EXCEPT
                                                   ![call[1].type] = queue_push(@, entry) ]
                             /\ netAccepted' = [ netAccepted EXCEPT
                                                   ![call[1].type] = Append(@, entry) ]
                             /\ softirqPending' = TRUE
                     ELSE UNCHANGED <<protoQueues, netAccepted, softirqPending>>
    /\ UNCHANGED <<intrUp, netHandled, softirqRuns, netShut>>
    /\ UNCHANGED <<routeVars, ipVars, udpVars, tcpVars, arpPend>>

\* the interrupt thread takes the pending software interrupt and runs
\* net_softirq_handler to its end
NetSoftirqHandler ==
    /\ intrUp
    /\ softirqPending
    /\ softirqPending' = FALSE
    /\ protoQueues' = [ t \in NetProtocolTypes |-> NetSoftirqDrain(protoQueues[t], << >>).queue ]
    /\ netHandled' = [ t \in NetProtocolTypes |->
                         netHandled[t] \o NetSoftirqDrain(protoQueues[t], << >>).handled ]
    /\ softirqRuns' = softirqRuns + 1
    /\ UNCHANGED <<intrUp, netSeen, netAccepted, netShut>>
    /\ NetOnly

\* intr_shutdown: the interrupt thread takes SIGHUP and ends
IntrShutdown ==
    /\ intrUp
    /\ intrUp' = FALSE
    /\ UNCHANGED <<protoQueues, softirqPending, netSeen, netAccepted, netHandled, softirqRuns,
                   netShut>>
    /\ NetOnly

NextNet ==
    \/ NetInputHandler
    \/ EtherInput
    \/ NetSoftirqHandler
    \/ IntrShutdown


(***************************************************************************)
(* platform/linux/sched.c: the scheduler context of a control block        *)
(***************************************************************************)
\* the threads blocked in pthread_cond_wait on the context of block i; a
\* thread whose context was cleared under it (orphan) is not counted
SchedWaiters(ths, i) ==
    { t \in DOMAIN ths : /\ ths[t].op \notin { "idle", "destroy" }
                         /\ ths[t].pcb = i
                         /\ ~ths[t].woken
                         /\ ~ths[t].orphan }

\* sched_wakeup(&pcb->ctx): pthread_cond_broadcast wakes every blocked thread
sched_wakeup(ths, i) ==
    [ t \in DOMAIN ths |->
        IF t \in SchedWaiters(ths, i) THEN [ ths[t] EXCEPT !.woken = TRUE ] ELSE ths[t] ]

\* sched_interrupt(&pcb->ctx) on the context fields of a block
sched_interrupt(pcb) == [ pcb EXCEPT !.interrupted = TRUE ]

\* sched_ctx_init(&pcb->ctx)
sched_ctx_init(pcb) == [ pcb EXCEPT !.interrupted = FALSE, !.wc = 0 ]

\* sched_sleep after pthread_cond_wait has returned: the block afterwards
\* and the return value
SchedSleepReturn(pcb) ==
    IF pcb.interrupted
    THEN [ pcb |-> [ pcb EXCEPT !.wc = @ - 1, !.interrupted = (pcb.wc - 1 # 0) ], ret |-> -1 ]
    ELSE [ pcb |-> [ pcb EXCEPT !.wc = @ - 1 ], ret |-> 0 ]

\* sched_ctx_destroy returns what pthread_cond_destroy returns: 0, or with
\* threads still blocked on the condition variable (undefined by POSIX)
\* 0 or the error number EBUSY, or it does not return while they stay
\* blocked; it never returns -1
sched_ctx_destroy(ths, i) ==
    IF SchedWaiters(ths, i) = { }
    THEN { [ blocks |-> FALSE, ret |-> 0 ] }
    ELSE { [ blocks |-> FALSE, ret |-> 0 ], [ blocks |-> FALSE, ret |-> 16 ],
           [ blocks |-> TRUE, ret |-> 0 ] }

\* the threads left blocked on a context that has been cleared
SchedOrphaned(ths, i) ==
    [ t \in DOMAIN ths |->
        IF t \in SchedWaiters(ths, i) THEN [ ths[t] EXCEPT !.orphan = TRUE ] ELSE ths[t] ]


(***************************************************************************)
(* udp.c: endpoints, datagram input and output, user commands              *)
(***************************************************************************)
IP_PROTOCOL_UDP == 17
UDP_SOURCE_PORT_MIN == 49152
UDP_SOURCE_PORT_MAX == 65535
UdpHdrSize == 8
\* sizeof(struct udp_queue_entry) and offsetof(struct udp_queue_entry, data)
UdpEntrySize == 12
UdpEntryDataOffset == 10

UdpPcbSize == 2

\* cksum16: one's complement of the one's complement sum of the 16-bit words
RECURSIVE Sum16(_, _)
Sum16(bytes, i) ==
    IF i > Len(bytes) THEN 0
    ELSE IF i = Len(bytes) THEN bytes[i] * 256
    ELSE bytes[i] * 256 + bytes[i + 1] + Sum16(bytes, i + 2)

RECURSIVE Fold16(_)
Fold16(sum) == IF sum < U16Mod THEN sum ELSE Fold16((sum % U16Mod) + (sum \div U16Mod))

cksum16(bytes, init) == (U16Mod - 1) - Fold16(Sum16(bytes, 1) + init)

\* struct pseudo_hdr as filled in by udp_input and udp_output
UdpPseudo(src, dst, len) == src \o dst \o << 0, IP_PROTOCOL_UDP >> \o hton16(len)

\* the datagram udp_output builds: header (ports as stored, length,
\* checksum over pseudo header, header and data) and the data
UdpDatagram(src, dst, data) ==
    LET total == (UdpHdrSize + Len(data)) % U16Mod
        psum == (U16Mod - 1) - cksum16(UdpPseudo(src.addr, dst.addr, total), 0)
        zeroed == src.port \o dst.port \o hton16(total) \o << 0, 0 >> \o data
    IN  src.port \o dst.port \o hton16(total) \o hton16(cksum16(zeroed, psum)) \o data

UdpEndpointNone == [ addr |-> IP_ADDR_ANY, port |-> << 0, 0 >> ]
UdpPcbFree ==
    [ state |-> "FREE", local |-> UdpEndpointNone, queue |-> << >>,
      wc |-> 0, interrupted |-> FALSE ]

\* udp_pcb_alloc: index of the first FREE endpoint, 0 if there is none
udp_pcb_alloc(pcbs) ==
    IF \E i \in 1..UdpPcbSize : pcbs[i].state = "FREE"
    THEN CHOOSE i \in 1..UdpPcbSize :
            /\ pcbs[i].state = "FREE"
            /\ \A j \in 1..(i - 1) : pcbs[j].state # "FREE"
    ELSE 0

\* udp_pcb_release with d the outcome of sched_ctx_destroy: the endpoint is
\* CLOSING; on -1 the sleepers are woken and it stays so, else it becomes
\* FREE with its local endpoint cleared and its queue drained; blocked tells
\* that the caller is stuck in sched_ctx_destroy
udp_pcb_release_keep(pcbs, ths, i, d) ==
    IF d.blocks
    THEN [ pcbs |-> [ pcbs EXCEPT ![i].state = "CLOSING" ], ths |-> ths, blocked |-> TRUE ]
    ELSE [ pcbs |-> [ pcbs EXCEPT ![i].state = "CLOSING" ], ths |-> sched_wakeup(ths, i),
           blocked |-> FALSE ]
udp_pcb_release(pcbs, ths, i, d) ==
    IF d.blocks
    THEN [ pcbs |-> [ pcbs EXCEPT ![i].state = "CLOSING" ], ths |-> ths, blocked |-> TRUE ]
    ELSE IF d.ret = -1
    THEN [ pcbs |-> [ pcbs EXCEPT ![i].state = "CLOSING" ], ths |-> sched_wakeup(ths, i),
           blocked |-> FALSE ]
    ELSE [ pcbs |-> [ pcbs EXCEPT ![i].state = "FREE", ![i].local = UdpEndpointNone,
                                  ![i].queue = << >> ],
           ths |-> SchedOrphaned(ths, i), blocked |-> FALSE ]

UdpPcbMatch(pcb, addr, port) ==
    /\ pcb.state = "OPEN"
    /\ (pcb.local.addr = IP_ADDR_ANY \/ addr = IP_ADDR_ANY \/ pcb.local.addr = addr)
    /\ pcb.local.port = port

\* udp_pcb_select: index of the first OPEN endpoint that matches, 0 if none
udp_pcb_select(pcbs, addr, port) ==
    IF \E i \in 1..UdpPcbSize : UdpPcbMatch(pcbs[i], addr, port)
    THEN CHOOSE i \in 1..UdpPcbSize :
            /\ UdpPcbMatch(pcbs[i], addr, port)
            /\ \A j \in 1..(i - 1) : ~UdpPcbMatch(pcbs[j], addr, port)
    ELSE 0

\* udp_pcb_get variant without the test of the state
udp_pcb_get_anystate(pcbs, id) ==
    IF id < 0 \/ id >= UdpPcbSize THEN 0
    ELSE id + 1

\* udp_pcb_get: the endpoint of an identifier (0-based), 0 if it is not OPEN
udp_pcb_get(pcbs, id) ==
    IF id < 0 \/ id >= UdpPcbSize THEN 0
    ELSE IF pcbs[id + 1].state # "OPEN" THEN 0
    ELSE id + 1

\* port scan that takes a port used on any address as used
RECURSIVE UdpPortScan_anyaddr(_, _, _)
UdpPortScan_anyaddr(pcbs, addr, p) ==
    IF p > UDP_SOURCE_PORT_MAX THEN 0
    ELSE IF udp_pcb_select(pcbs, IP_ADDR_ANY, hton16(p)) = 0 THEN p
    ELSE UdpPortScan_anyaddr(pcbs, addr, p + 1)

\* udp_sendto: the first port from p on that no OPEN endpoint uses on addr,
\* 0 if none
RECURSIVE UdpPortScan(_, _, _)
UdpPortScan(pcbs, addr, p) ==
    IF p > UDP_SOURCE_PORT_MAX THEN 0
    ELSE IF udp_pcb_select(pcbs, addr, hton16(p)) = 0 THEN p
    ELSE UdpPortScan(pcbs, addr, p + 1)

\* udp_input up to the selection of the endpoint: index of the endpoint the
\* datagram is queued on, 0 if it is dropped
UdpInputSelect(pcbs, bytes, src, dst) ==
    IF Len(bytes) < UdpHdrSize THEN 0
    ELSE IF Len(bytes) # ntoh16(SubSeq(bytes, 5, 6)) THEN 0
    ELSE IF cksum16(bytes, (U16Mod - 1) - cksum16(UdpPseudo(src, dst, Len(bytes)), 0)) # 0 THEN 0
    ELSE udp_pcb_select(pcbs, dst, SubSeq(bytes, 3, 4))

\* the data of a queue entry after memcpy(entry->data, hdr + 1, entry->len)
\* into an entry allocated with sizeof(*entry) bytes: the bytes that lie
\* past the allocation are outside any object
UdpEntryStored(data) ==
    IF Len(data) <= UdpEntrySize - UdpEntryDataOffset THEN { data }
    ELSE { data,
           SubSeq(data, 1, UdpEntrySize - UdpEntryDataOffset)
             \o [ i \in 1..(Len(data) - (UdpEntrySize - UdpEntryDataOffset)) |-> Indeterminate ] }

\* inputs of the user commands
UdpLocals ==
    { [ addr |-> IP_ADDR_ANY, port |-> hton16(7) ],
      [ addr |-> <<127, 0, 0, 1>>, port |-> hton16(7) ],
      [ addr |-> <<127, 0, 0, 1>>, port |-> hton16(UDP_SOURCE_PORT_MIN) ] }
UdpForeigns ==
    { [ addr |-> <<127, 0, 0, 1>>, port |-> hton16(7) ],
      [ addr |-> <<192, 0, 2, 1>>, port |-> hton16(7) ] }
UdpPayloads == { << >>, << 104, 105 >>, << 104, 105, 33 >> }
UdpBufSizes == { 2, 2048 }
UdpIds == 0..(UdpPcbSize - 1)
\* the identifiers the user commands are called with: those of the table and
\* one on either side of it
UdpCallIds == -1..UdpPcbSize

\* the application thread receives, the other one issues the other commands
UdpThreads == { "app", "aux" }
UdpAppThreads == { "app" }
UdpThreadIdle ==
    [ op |-> "idle", pcb |-> 0, woken |-> FALSE, orphan |-> FALSE ]

UdpResNone ==
    [ done |-> FALSE, op |-> "none", id |-> 0, size |-> 0, ret |-> 0, eintr |-> FALSE,
      foreign |-> UdpEndpointNone, data |-> << >>,
      sentBy |-> UdpEndpointNone, sentData |-> << >> ]
UdpReturn(op, id, ret) ==
    [ UdpResNone EXCEPT !.done = TRUE, !.op = op, !.id = id, !.ret = ret ]
\* return -1 with errno = EINTR
UdpReturnEintr(op, id) ==
    [ UdpResNone EXCEPT !.done = TRUE, !.op = op, !.id = id, !.ret = -1, !.eintr = TRUE ]

InitUdp ==
    /\ udpPcbs = [ i \in 1..UdpPcbSize |-> UdpPcbFree ]
    /\ loQueue = << >>
    /\ udpRes = UdpResNone
    /\ udpCrashed = FALSE
    /\ udpThreads = [ t \in UdpThreads |-> UdpThreadIdle ]

\* the mutex is free and no call has just returned
UdpQuiet ==
    /\ ~udpCrashed
    /\ ~udpRes.done
    /\ \A t \in UdpThreads : udpThreads[t].op # "destroy"

udp_open ==
    /\ UdpQuiet
    /\ \E i \in { udp_pcb_alloc(udpPcbs) } :
          /\ i # 0
          /\ udpPcbs' = [ udpPcbs EXCEPT ![i] = [ sched_ctx_init(@) EXCEPT !.state = "OPEN" ] ]
    /\ UNCHANGED <<loQueue, udpRes, udpCrashed, udpThreads, caches, ipId>>
    /\ UdpOnly

\* thread t calls udp_pcb_release on endpoint i and returns res, unless it
\* stays in sched_ctx_destroy
UdpRelease(t, pcbs, i, res) ==
    \E d \in sched_ctx_destroy([ udpThreads EXCEPT ![t] = UdpThreadIdle ], i) :
    \E x \in { udp_pcb_release(pcbs, [ udpThreads EXCEPT ![t] = UdpThreadIdle ], i, d) } :
        /\ udpPcbs' = x.pcbs
        /\ udpThreads' = IF x.blocked
                         THEN [ x.ths EXCEPT ![t] = [ UdpThreadIdle EXCEPT !.op = "destroy",
                                                                           !.pcb = i ] ]
                         ELSE x.ths
        /\ udpRes' = IF x.blocked THEN UdpResNone ELSE res

UdpCloseCall(id) ==
    /\ UdpQuiet
    /\ \E i \in { udp_pcb_get(udpPcbs, id) } :
          IF i = 0
          THEN /\ udpRes' = UdpReturn("close", id, -1)
               /\ UNCHANGED <<udpPcbs, udpThreads>>
          ELSE UdpRelease("aux", udpPcbs, i, UdpReturn("close", id, 0))
    /\ UNCHANGED <<loQueue, udpCrashed, caches, ipId>>
    /\ UdpOnly

udp_close == \E id \in UdpCallIds : UdpCloseCall(id)

UdpBindCall(id, local) ==
    /\ UdpQuiet
    /\ \E i \in { udp_pcb_get(udpPcbs, id) } :
          IF i = 0 \/ udp_pcb_select(udpPcbs, local.addr, local.port) # 0
          THEN /\ udpRes' = [ UdpReturn("bind", id, -1) EXCEPT !.sentBy = local ]
               /\ UNCHANGED udpPcbs
          ELSE /\ udpPcbs' = [ udpPcbs EXCEPT ![i].local = local ]
               /\ udpRes' = [ UdpReturn("bind", id, 0) EXCEPT !.sentBy = local ]
    /\ UNCHANGED <<loQueue, udpCrashed, udpThreads, caches, ipId>>
    /\ UdpOnly

udp_bind == \E id \in UdpCallIds, local \in UdpLocals : UdpBindCall(id, local)

\* udp_sendto up to the call of udp_output: the source endpoint of the
\* datagram (port << 0, 0 >> if the call fails before) and the endpoints
\* afterwards
UdpSendSource(pcbs, rs, i, foreign) ==
    LET pos == ip_route_lookup(rs, foreign.addr)
        addr == IF pcbs[i].local.addr # IP_ADDR_ANY THEN pcbs[i].local.addr
                ELSE IF pos # 0 THEN rs[pos].iface.unicast ELSE IP_ADDR_ANY
        port == IF pcbs[i].local.port = << 0, 0 >>
                THEN UdpPortScan(pcbs, addr, UDP_SOURCE_PORT_MIN)
                ELSE ntoh16(pcbs[i].local.port)
    IN  IF pcbs[i].local.addr = IP_ADDR_ANY /\ pos = 0
        THEN [ local |-> UdpEndpointNone, pcbs |-> pcbs ]
        ELSE IF port = 0 THEN [ local |-> [ addr |-> addr, port |-> << 0, 0 >> ], pcbs |-> pcbs ]
        ELSE [ local |-> [ addr |-> addr, port |-> hton16(port) ],
               pcbs |-> [ pcbs EXCEPT ![i].local.port = hton16(port) ] ]

\* udp_sendto with udp_output and ip_output; a datagram that the loopback
\* driver accepts is queued for input
UdpSendtoCall(id, data, foreign, txOk) ==
    /\ UdpQuiet
    /\ ipId < IpIdStart + MaxIpOutputs
    /\ \E i \in { udp_pcb_get(udpPcbs, id) } :
          IF i = 0
          THEN /\ udpRes' = UdpReturn("sendto", id, -1)
               /\ UNCHANGED <<udpPcbs, caches, ipId, loQueue>>
          ELSE \E src \in { UdpSendSource(udpPcbs, routes, i, foreign) } :
               /\ udpPcbs' = src.pcbs
               /\ IF src.local.port = << 0, 0 >>
                     \/ Len(data) > 65535 - IP_HDR_SIZE_MIN - UdpHdrSize
                  THEN /\ udpRes' = UdpReturn("sendto", id, -1)
                       /\ UNCHANGED <<caches, ipId, loQueue>>
                  ELSE \E r \in { ip_output(routes, caches, devUp, IP_PROTOCOL_UDP,
                                            UdpHdrSize + Len(data), src.local.addr, foreign.addr,
                                            ipId, now, txOk) } :
                         /\ caches' = r.cache
                         /\ ipId' = r.id
                         /\ udpRes' = [ UdpReturn("sendto", id,
                                                  IF r.ret = -1 THEN -1 ELSE Len(data))
                                          EXCEPT !.sentBy = src.local ]
                         /\ loQueue' =
                              IF r.ret # -1 /\ r.frames # << >> /\ r.frames[1].dev = "lo"
                                 /\ r.frames[1].type = "IP"
                              THEN Append(loQueue,
                                     [ src |-> r.frames[1].data.src, dst |-> r.frames[1].data.dst,
                                       bytes |-> UdpDatagram(src.local, foreign, data),
                                       sentBy |-> src.local, sentData |-> data ])
                              ELSE loQueue
    /\ UNCHANGED <<udpCrashed, udpThreads>>
    /\ UdpOnly

udp_sendto ==
    \E id \in UdpCallIds, data \in UdpPayloads, foreign \in UdpForeigns, txOk \in BOOLEAN :
        UdpSendtoCall(id, data, foreign, txOk)

\* the oldest datagram on the loopback device is input: ip_input on the
\* loopback interface, then udp_input; allocOk: memory_alloc succeeds
udp_input ==
    /\ UdpQuiet
    /\ loQueue # << >>
    /\ loQueue' = Tail(loQueue)
    /\ \E dg \in { Head(loQueue) }, allocOk \in BOOLEAN :
       \E i \in { IF dg.dst \in { HostLo.unicast, HostLo.broadcast, IP_ADDR_BROADCAST }
                  THEN UdpInputSelect(udpPcbs, dg.bytes, dg.src, dg.dst) ELSE 0 } :
          IF i = 0 THEN UNCHANGED <<udpPcbs, udpCrashed, udpThreads>>
          ELSE IF ~allocOk THEN udpCrashed' = TRUE /\ UNCHANGED <<udpPcbs, udpThreads>>
          ELSE \E payload \in { SubSeq(dg.bytes, UdpHdrSize + 1, Len(dg.bytes)) } :
                  \/ /\ Len(payload) > UdpEntrySize - UdpEntryDataOffset
                     /\ udpCrashed' = TRUE
                     /\ UNCHANGED <<udpPcbs, udpThreads>>
                  \/ \E stored \in UdpEntryStored(payload) :
                        /\ udpPcbs' =
                             [ udpPcbs EXCEPT ![i].queue = queue_push(@,
                                 [ foreign |-> [ addr |-> dg.src, port |-> SubSeq(dg.bytes, 1, 2) ],
                                   len |-> (Len(dg.bytes) - UdpHdrSize) % U16Mod,
                                   data |-> stored,
                                   sentBy |-> dg.sentBy, sentData |-> dg.sentData ]) ]
                        /\ udpThreads' = sched_wakeup(udpThreads, i)
                        /\ UNCHANGED udpCrashed
    /\ UNCHANGED <<udpRes, caches, ipId>>
    /\ UdpOnly

\* a thread left blocked on a destroyed context may come back at any time
UdpOrphanWoken(t) ==
    /\ UdpQuiet
    /\ udpThreads[t].orphan
    /\ ~udpThreads[t].woken
    /\ udpThreads' = [ udpThreads EXCEPT ![t].woken = TRUE ]
    /\ UNCHANGED <<udpPcbs, loQueue, udpRes, udpCrashed, caches, ipId>>
    /\ UdpOnly

\* udp_recvfrom from the head of its loop, with p the endpoint as it is
\* then, up to its return or its sleep
UdpRecvFrom(t, p, i, id, size) ==
    IF queue_pop(p.queue).entry # << >>
    THEN \E entry \in { queue_pop(p.queue).entry[1] } :
            /\ udpPcbs' = [ udpPcbs EXCEPT ![i] = [ p EXCEPT !.queue = queue_pop(@).queue ] ]
            /\ udpThreads' = [ udpThreads EXCEPT ![t] = UdpThreadIdle ]
            /\ udpRes' = [ done |-> TRUE, op |-> "recvfrom", id |-> id, size |-> size,
                           ret |-> Min(size, entry.len), eintr |-> FALSE,
                           foreign |-> entry.foreign,
                           data |-> SubSeq(entry.data, 1, Min(size, entry.len)),
                           sentBy |-> entry.sentBy, sentData |-> entry.sentData ]
    ELSE IF p.interrupted
    THEN /\ udpPcbs' = [ udpPcbs EXCEPT ![i] = p ]
         /\ udpThreads' = [ udpThreads EXCEPT ![t] = UdpThreadIdle ]
         /\ udpRes' = UdpReturnEintr("recvfrom", id)
    ELSE /\ udpPcbs' = [ udpPcbs EXCEPT ![i] = [ p EXCEPT !.wc = @ + 1 ] ]
         /\ udpThreads' = [ udpThreads EXCEPT ![t] =
                              [ UdpThreadIdle EXCEPT !.op = "recvfrom", !.pcb = i ] ]
         /\ UNCHANGED udpRes

UdpRecvfromCall(t, id, size) ==
    /\ UdpQuiet
    /\ udpThreads[t].op = "idle"
    /\ \E i \in { udp_pcb_get(udpPcbs, id) } :
          IF i = 0
          THEN /\ udpRes' = UdpReturn("recvfrom", id, -1)
               /\ UNCHANGED <<udpPcbs, udpThreads>>
          ELSE UdpRecvFrom(t, udpPcbs[i], i, id, size)
    /\ UNCHANGED <<loQueue, udpCrashed, caches, ipId>>
    /\ UdpOnly

udp_recvfrom(t) == \E id \in UdpCallIds, size \in UdpBufSizes : UdpRecvfromCall(t, id, size)

\* udp_recvfrom from the return of pthread_cond_wait on; the size of the
\* caller's buffer, which the call has not used so far, is drawn here
UdpRecvWoken(t) ==
    /\ UdpQuiet
    /\ udpThreads[t].op = "recvfrom"
    /\ udpThreads[t].woken
    /\ \E i \in { udpThreads[t].pcb }, size \in UdpBufSizes :
       \E w \in { SchedSleepReturn(udpPcbs[i]) } :
          IF w.ret = -1
          THEN /\ udpPcbs' = [ udpPcbs EXCEPT ![i] = w.pcb ]
               /\ udpThreads' = [ udpThreads EXCEPT ![t] = UdpThreadIdle ]
               /\ udpRes' = UdpReturnEintr("recvfrom", i - 1)
          ELSE IF w.pcb.state = "CLOSING"
          THEN UdpRelease(t, [ udpPcbs EXCEPT ![i] = w.pcb ], i,
                          UdpReturn("recvfrom", i - 1, -1))
          ELSE UdpRecvFrom(t, w.pcb, i, i - 1, size)
    /\ UNCHANGED <<loQueue, udpCrashed, caches, ipId>>
    /\ UdpOnly

\* the caller has taken the result of the command
UdpStepDone ==
    /\ udpRes.done
    /\ udpRes' = UdpResNone
    /\ UNCHANGED <<udpPcbs, loQueue, udpCrashed, udpThreads, caches, ipId>>
    /\ UdpOnly

\* net_run on a host that runs no other operation
UdpNetRun == NetRun /\ ~udpCrashed

NextUdp ==
    \/ udp_open
    \/ udp_bind
    \/ udp_close
    \/ udp_sendto
    \/ udp_input
    \/ \E t \in UdpAppThreads : udp_recvfrom(t)
    \/ \E t \in UdpAppThreads : UdpRecvWoken(t)
    \/ \E t \in UdpAppThreads : UdpOrphanWoken(t)
    \/ UdpStepDone
    \/ UdpNetRun


(***************************************************************************)
(* tcp.c: control blocks and the processing of an arriving segment         *)
(***************************************************************************)
\* sizeof(pcb->buf) and sizeof(struct tcp_hdr)
TcpBufSize == 65535
TcpHdrSize == 20

TcpPcbSize == 1

TcpEndpointNone == [ addr |-> IP_ADDR_ANY, port |-> << 0, 0 >> ]

\* a control block after memset(pcb, 0, sizeof(*pcb)); delivered counts the
\* bytes tcp_receive has returned (history)
TcpPcbFree ==
    [ state |-> "FREE", local |-> TcpEndpointNone, foreign |-> TcpEndpointNone,
      snd_nxt |-> U32(0), snd_una |-> U32(0), snd_wnd |-> 0,
      snd_wl1 |-> U32(0), snd_wl2 |-> U32(0), iss |-> U32(0),
      rcv_nxt |-> U32(0), rcv_wnd |-> 0, irs |-> U32(0),
      buf |-> << >>, wc |-> 0, interrupted |-> FALSE, delivered |-> 0 ]

\* tcp_pcb_alloc: index of the first FREE control block, 0 if there is none
tcp_pcb_alloc(pcbs) ==
    IF \E i \in 1..TcpPcbSize : pcbs[i].state = "FREE"
    THEN CHOOSE i \in 1..TcpPcbSize :
            /\ pcbs[i].state = "FREE"
            /\ \A j \in 1..(i - 1) : pcbs[j].state # "FREE"
    ELSE 0

\* tcp_pcb_select with a foreign endpoint: the first block whose local and
\* foreign endpoints match, else the last wildcard LISTEN block, else 0
RECURSIVE TcpSelectScan(_, _, _, _, _)
TcpSelectScan(pcbs, local, foreign, i, listen) ==
    IF i > TcpPcbSize THEN listen
    ELSE IF (pcbs[i].local.addr = IP_ADDR_ANY \/ pcbs[i].local.addr = local.addr)
            /\ pcbs[i].local.port = local.port
         THEN IF pcbs[i].foreign = foreign THEN i
              ELSE IF pcbs[i].state = "LISTEN" /\ pcbs[i].foreign = TcpEndpointNone
                   THEN TcpSelectScan(pcbs, local, foreign, i + 1, i)
                   ELSE TcpSelectScan(pcbs, local, foreign, i + 1, listen)
         ELSE TcpSelectScan(pcbs, local, foreign, i + 1, listen)

tcp_pcb_select(pcbs, local, foreign) == TcpSelectScan(pcbs, local, foreign, 1, 0)

\* tcp_pcb_get: the block of an identifier (0-based), 0 if it is FREE
tcp_pcb_get(pcbs, id) ==
    IF id < 0 \/ id >= TcpPcbSize THEN 0
    ELSE IF pcbs[id + 1].state = "FREE" THEN 0
    ELSE id + 1

\* tcp_output_segment: the segment passed to ip_output
tcp_output_segment(seq, ack, flg, wnd, len, local, foreign) ==
    [ seq |-> seq, ack |-> ack, flg |-> flg, wnd |-> wnd, len |-> len,
      local |-> local, foreign |-> foreign ]

tcp_output(pcb, flg, len) ==
    tcp_output_segment(IF "SYN" \in flg THEN pcb.iss ELSE pcb.snd_nxt,
                       pcb.rcv_nxt, flg, pcb.rcv_wnd, len, pcb.local, pcb.foreign)

\* seg.len of tcp_input: the data length plus one for SYN and one for FIN
TcpSegLen(seg) ==
    (Len(seg.data) + (IF "SYN" \in seg.flg THEN 1 ELSE 0)
                   + (IF "FIN" \in seg.flg THEN 1 ELSE 0)) % U16Mod

\* rcv.nxt <= seq && seq < rcv.nxt + rcv.wnd, in uint32_t arithmetic
TcpInWindow(pcb, seq) ==
    Le32(pcb.rcv_nxt, seq) /\ Lt32(seq, Add32(pcb.rcv_nxt, U32(pcb.rcv_wnd)))

\* the acceptability test of SYN_RECEIVED and ESTABLISHED
TcpAcceptable(pcb, seg) ==
    IF TcpSegLen(seg) = 0
    THEN IF pcb.rcv_wnd = 0 THEN seg.seq = pcb.rcv_nxt
         ELSE TcpInWindow(pcb, seg.seq)
    ELSE IF pcb.rcv_wnd = 0 THEN FALSE
         ELSE \/ TcpInWindow(pcb, seg.seq)
              \/ TcpInWindow(pcb, Sub32(Add32(seg.seq, U32(TcpSegLen(seg))), U32(1)))

TcpArrived(pcb, out, wake) == [ pcb |-> pcb, out |-> out, wake |-> wake ]

\* tcp_segment_arrives, case LISTEN: an RST is ignored, an ACK is answered
\* with an RST, a SYN moves the block to SYN_RECEIVED with a SYN+ACK; the
\* sleeping opener is not woken
TcpListenAckIsSeq(pcb, seg, local, foreign, iss) ==
    IF "RST" \in seg.flg THEN TcpArrived(pcb, << >>, FALSE)
    ELSE IF "ACK" \in seg.flg
    THEN TcpArrived(pcb,
            << tcp_output_segment(seg.ack, U32(0), { "RST" }, 0, 0, local, foreign) >>, FALSE)
    ELSE IF "SYN" \in seg.flg
    THEN LET p1 == [ pcb EXCEPT !.local = local, !.foreign = foreign,
                                !.rcv_wnd = TcpBufSize,
                                !.rcv_nxt = seg.seq,
                                !.irs = seg.seq, !.iss = iss ]
         IN  TcpArrived([ p1 EXCEPT !.snd_nxt = Add32(iss, U32(1)), !.snd_una = iss,
                                    !.state = "SYN_RECEIVED" ],
                        << tcp_output(p1, { "SYN", "ACK" }, 0) >>, FALSE)
    ELSE TcpArrived(pcb, << >>, FALSE)

\* variant in which a SYN takes a listening block to ESTABLISHED at once
TcpListenEstablishes(pcb, seg, local, foreign, iss) ==
    IF "RST" \in seg.flg THEN TcpArrived(pcb, << >>, FALSE)
    ELSE IF "ACK" \in seg.flg
    THEN TcpArrived(pcb,
            << tcp_output_segment(seg.ack, U32(0), { "RST" }, 0, 0, local, foreign) >>, FALSE)
    ELSE IF "SYN" \in seg.flg
    THEN LET p1 == [ pcb EXCEPT !.local = local, !.foreign = foreign,
                                !.rcv_wnd = TcpBufSize,
                                !.rcv_nxt = Add32(seg.seq, U32(1)),
                                !.irs = seg.seq, !.iss = iss ]
         IN  TcpArrived([ p1 EXCEPT !.snd_nxt = Add32(iss, U32(1)), !.snd_una = iss,
                                    !.state = "ESTABLISHED" ],
                        << tcp_output(p1, { "SYN", "ACK" }, 0) >>, FALSE)
    ELSE TcpArrived(pcb, << >>, FALSE)

TcpListenSynFirst(pcb, seg, local, foreign, iss) ==
    IF "RST" \in seg.flg THEN TcpArrived(pcb, << >>, FALSE)
    ELSE IF "SYN" \in seg.flg
    THEN LET p1 == [ pcb EXCEPT !.local = local, !.foreign = foreign,
                                !.rcv_wnd = TcpBufSize,
                                !.rcv_nxt = Add32(seg.seq, U32(1)),
                                !.irs = seg.seq, !.iss = iss ]
         IN  TcpArrived([ p1 EXCEPT !.snd_nxt = Add32(iss, U32(1)), !.snd_una = iss,
                                    !.state = "SYN_RECEIVED" ],
                        << tcp_output(p1, { "SYN", "ACK" }, 0) >>, FALSE)
    ELSE IF "ACK" \in seg.flg
    THEN TcpArrived(pcb,
            << tcp_output_segment(seg.ack, U32(0), { "RST" }, 0, 0, local, foreign) >>, FALSE)
    ELSE TcpArrived(pcb, << >>, FALSE)

TcpListen(pcb, seg, local, foreign, iss) ==
    IF "RST" \in seg.flg THEN TcpArrived(pcb, << >>, FALSE)
    ELSE IF "ACK" \in seg.flg
    THEN TcpArrived(pcb,
            << tcp_output_segment(seg.ack, U32(0), { "RST" }, 0, 0, local, foreign) >>, FALSE)
    ELSE IF "SYN" \in seg.flg
    THEN LET p1 == [ pcb EXCEPT !.local = local, !.foreign = foreign,
                                !.rcv_wnd = TcpBufSize,
                                !.rcv_nxt = Add32(seg.seq, U32(1)),
                                !.irs = seg.seq, !.iss = iss ]
         IN  TcpArrived([ p1 EXCEPT !.snd_nxt = Add32(iss, U32(1)), !.snd_una = iss,
                                    !.state = "SYN_RECEIVED" ],
                        << tcp_output(p1, { "SYN", "ACK" }, 0) >>, FALSE)
    ELSE TcpArrived(pcb, << >>, FALSE)

\* variant that acknowledges seg.seq instead of seg.seq + seg.len
TcpNoPcbAckSeq(seg, local, foreign) ==
    IF "RST" \in seg.flg THEN << >>
    ELSE IF "ACK" \notin seg.flg
    THEN << tcp_output_segment(U32(0), seg.seq, { "RST", "ACK" }, 0, 0, local, foreign) >>
    ELSE << tcp_output_segment(seg.ack, U32(0), { "RST" }, 0, 0, local, foreign) >>

\* no control block, or a CLOSED one: an RST is ignored, anything else is
\* answered with an RST
TcpNoPcb(seg, local, foreign) ==
    IF "RST" \in seg.flg THEN << >>
    ELSE IF "ACK" \notin seg.flg
    THEN << tcp_output_segment(U32(0), Add32(seg.seq, U32(TcpSegLen(seg))),
                               { "RST", "ACK" }, 0, 0, local, foreign) >>
    ELSE << tcp_output_segment(seg.ack, U32(0), { "RST" }, 0, 0, local, foreign) >>

\* the ACK field in ESTABLISHED; stop is the early return after answering
\* an ACK of something not yet sent
TcpEstablishedAckAnyWl(pcb, seg) ==
    IF Lt32(pcb.snd_una, seg.ack) /\ Le32(seg.ack, pcb.snd_nxt)
    THEN [ pcb |-> [ pcb EXCEPT !.snd_una = seg.ack, !.snd_wnd = seg.wnd,
                                !.snd_wl1 = seg.seq, !.snd_wl2 = seg.ack ],
           out |-> << >>, stop |-> FALSE ]
    ELSE IF Lt32(seg.ack, pcb.snd_una)
    THEN [ pcb |-> pcb, out |-> << >>, stop |-> FALSE ]
    ELSE IF Lt32(pcb.snd_nxt, seg.ack)
    THEN [ pcb |-> pcb, out |-> << tcp_output(pcb, { "ACK" }, 0) >>, stop |-> TRUE ]
    ELSE [ pcb |-> pcb, out |-> << >>, stop |-> FALSE ]
TcpEstablishedAck(pcb, seg) ==
    IF Lt32(pcb.snd_una, seg.ack) /\ Le32(seg.ack, pcb.snd_nxt)
    THEN [ pcb |-> IF \/ Lt32(pcb.snd_wl1, seg.seq)
                      \/ (pcb.snd_wl1 = seg.seq /\ Le32(pcb.snd_wl2, seg.ack))
                   THEN [ pcb EXCEPT !.snd_una = seg.ack, !.snd_wnd = seg.wnd,
                                     !.snd_wl1 = seg.seq, !.snd_wl2 = seg.ack ]
                   ELSE [ pcb EXCEPT !.snd_una = seg.ack ],
           out |-> << >>, stop |-> FALSE ]
    ELSE IF Lt32(seg.ack, pcb.snd_una)
    THEN [ pcb |-> pcb, out |-> << >>, stop |-> FALSE ]
    ELSE IF Lt32(pcb.snd_nxt, seg.ack)
    THEN [ pcb |-> pcb, out |-> << tcp_output(pcb, { "ACK" }, 0) >>, stop |-> TRUE ]
    ELSE [ pcb |-> pcb, out |-> << >>, stop |-> FALSE ]

\* memcpy(pcb->buf + off, data, len) on the buffered bytes
TcpBufWrite(buf, off, data) ==
    IF off = Len(buf) THEN buf \o data
    ELSE [ j \in 1..(off + Len(data)) |->
             IF j > off THEN data[j - off]
             ELSE IF j <= Len(buf) THEN buf[j] ELSE Indeterminate ]

\* the segment text in ESTABLISHED: the data is stored behind the buffered
\* bytes, rcv.nxt becomes seg.seq + seg.len, an ACK is sent, sleepers are woken
TcpText(pcb, seg) ==
    IF pcb.state = "ESTABLISHED" /\ Len(seg.data) > 0
    THEN LET p1 == [ pcb EXCEPT
                       !.buf = TcpBufWrite(pcb.buf, TcpBufSize - pcb.rcv_wnd, seg.data),
                       !.rcv_nxt = Add32(seg.seq, U32(TcpSegLen(seg))),
                       !.rcv_wnd = (pcb.rcv_wnd - Len(seg.data)) % U16Mod ]
         IN  TcpArrived(p1, << tcp_output(p1, { "ACK" }, 0) >>, TRUE)
    ELSE TcpArrived(pcb, << >>, FALSE)

\* variant that answers every unacceptable segment with an ACK
TcpSynchronizedAckRst(pcb, seg, local, foreign) ==
    IF pcb.state \in { "SYN_RECEIVED", "ESTABLISHED" } /\ ~TcpAcceptable(pcb, seg)
    THEN TcpArrived(pcb, << tcp_output(pcb, { "ACK" }, 0) >>, FALSE)
    ELSE IF "ACK" \notin seg.flg THEN TcpArrived(pcb, << >>, FALSE)
    ELSE IF pcb.state = "SYN_RECEIVED"
            /\ ~(Le32(pcb.snd_una, seg.ack) /\ Le32(seg.ack, pcb.snd_nxt))
    THEN TcpArrived(pcb,
            << tcp_output_segment(seg.ack, U32(0), { "RST" }, 0, 0, local, foreign) >>, FALSE)
    ELSE IF pcb.state \in { "SYN_RECEIVED", "ESTABLISHED" }
    THEN LET a == TcpEstablishedAck([ pcb EXCEPT !.state = "ESTABLISHED" ], seg)
             t == TcpText(a.pcb, seg)
         IN  IF a.stop THEN TcpArrived(a.pcb, a.out, pcb.state = "SYN_RECEIVED")
             ELSE TcpArrived(t.pcb, t.out, pcb.state = "SYN_RECEIVED" \/ t.wake)
    ELSE TcpArrived(pcb, << >>, FALSE)

\* tcp_segment_arrives from the sequence number check on
TcpSynchronized(pcb, seg, local, foreign) ==
    IF pcb.state \in { "SYN_RECEIVED", "ESTABLISHED" } /\ ~TcpAcceptable(pcb, seg)
    THEN TcpArrived(pcb, IF "RST" \in seg.flg THEN << >>
                         ELSE << tcp_output(pcb, { "ACK" }, 0) >>, FALSE)
    ELSE IF "ACK" \notin seg.flg THEN TcpArrived(pcb, << >>, FALSE)
    ELSE IF pcb.state = "SYN_RECEIVED"
            /\ ~(Le32(pcb.snd_una, seg.ack) /\ Le32(seg.ack, pcb.snd_nxt))
    THEN TcpArrived(pcb,
            << tcp_output_segment(seg.ack, U32(0), { "RST" }, 0, 0, local, foreign) >>, FALSE)
    ELSE IF pcb.state \in { "SYN_RECEIVED", "ESTABLISHED" }
    THEN LET a == TcpEstablishedAck([ pcb EXCEPT !.state = "ESTABLISHED" ], seg)
             t == TcpText(a.pcb, seg)
         IN  IF a.stop THEN TcpArrived(a.pcb, a.out, pcb.state = "SYN_RECEIVED")
             ELSE TcpArrived(t.pcb, t.out, pcb.state = "SYN_RECEIVED" \/ t.wake)
    ELSE TcpArrived(pcb, << >>, FALSE)

\* tcp_segment_arrives: the control blocks afterwards, the segments sent and
\* the block whose sleepers are woken (0 = none)
tcp_segment_arrives(pcbs, seg, local, foreign, iss) ==
    LET i == tcp_pcb_select(pcbs, local, foreign)
    IN  IF i = 0
        THEN [ pcbs |-> pcbs, out |-> TcpNoPcb(seg, local, foreign), wake |-> 0 ]
        ELSE IF pcbs[i].state = "CLOSED"
        THEN [ pcbs |-> pcbs, out |-> TcpNoPcb(seg, local, foreign), wake |-> 0 ]
        ELSE LET r == IF pcbs[i].state = "LISTEN"
                      THEN TcpListen(pcbs[i], seg, local, foreign, iss)
                      ELSE IF pcbs[i].state = "SYN_SENT"
                      THEN TcpArrived(pcbs[i], << >>, FALSE)
                      ELSE TcpSynchronized(pcbs[i], seg, local, foreign)
             IN  [ pcbs |-> [ pcbs EXCEPT ![i] = r.pcb ], out |-> r.out,
                   wake |-> IF r.wake THEN i ELSE 0 ]

\* tcp_pcb_release with d the outcome of sched_ctx_destroy: on -1 the
\* sleepers are woken and the block is left as it is, else the block is
\* cleared; blocked tells that the caller is stuck in sched_ctx_destroy
tcp_pcb_release_keep(pcbs, ths, i, d) ==
    IF d.blocks THEN [ pcbs |-> pcbs, ths |-> ths, blocked |-> TRUE ]
    ELSE [ pcbs |-> pcbs, ths |-> sched_wakeup(ths, i), blocked |-> FALSE ]
tcp_pcb_release(pcbs, ths, i, d) ==
    IF d.blocks
    THEN [ pcbs |-> pcbs, ths |-> ths, blocked |-> TRUE ]
    ELSE IF d.ret = -1
    THEN [ pcbs |-> pcbs, ths |-> sched_wakeup(ths, i), blocked |-> FALSE ]
    ELSE [ pcbs |-> [ pcbs EXCEPT ![i] = TcpPcbFree ], ths |-> SchedOrphaned(ths, i),
           blocked |-> FALSE ]

\* the sending loop of tcp_send up to its return, its failure or its sleep
RECURSIVE TcpSendLoop(_, _, _, _, _, _)
TcpSendLoop(pcb, mss, sent, len, out, ipOk) ==
    IF sent >= len
    THEN [ pcb |-> pcb, sent |-> sent, out |-> out, status |-> "done" ]
    ELSE LET cap == Sub32(U32(pcb.snd_wnd), Sub32(pcb.snd_nxt, pcb.snd_una))
             slen == IF cap[1] > 0 THEN Min(mss, len - sent)
                     ELSE Min(Min(mss, len - sent), cap[2])
         IN  IF cap = U32(0)
             THEN [ pcb |-> pcb, sent |-> sent, out |-> out, status |-> "sleep" ]
             ELSE IF ~ipOk
             THEN [ pcb |-> pcb, sent |-> sent, out |-> out, status |-> "fail" ]
             ELSE TcpSendLoop([ pcb EXCEPT !.snd_nxt = Add32(pcb.snd_nxt, U32(slen)) ],
                              mss, sent + slen, len,
                              Append(out, tcp_output(pcb, { "ACK", "PSH" }, slen)), ipOk)

\* mss of tcp_send: the MTU of the device of the route to the peer less the
\* IP and TCP headers; 0 stands for no route
TcpMss(rs, dst) ==
    IF ip_route_lookup(rs, dst) = 0 THEN 0
    ELSE NetDevice(rs[ip_route_lookup(rs, dst)].iface.dev).mtu - (IP_HDR_SIZE_MIN + TcpHdrSize)

(***************************************************************************)
(* tcp.c: the user commands and the input from IP                          *)
(***************************************************************************)
MaxSndBytes == 5
MaxStream == 7

\* the identifiers the user commands are called with: those of the table and
\* one on either side of it
TcpCallIds == -1..TcpPcbSize
\* the application thread uses the connection, the other one only closes it
TcpThreads == { "app", "aux" }
TcpAppThreads == { "app" }
TcpLocal == [ addr |-> <<192, 0, 2, 2>>, port |-> hton16(7) ]
TcpPeer == [ addr |-> <<192, 0, 2, 1>>, port |-> hton16(10007) ]

\* a thread: the call it is in (destroy: stuck in sched_ctx_destroy with the
\* mutex held), the block it sleeps on, whether it has been woken, the
\* locals of the call, and (history) whether it was inside sched_sleep when
\* event_handler interrupted its block
TcpThreadIdle ==
    [ op |-> "idle", pcb |-> 0, st |-> "FREE", woken |-> FALSE, orphan |-> FALSE,
      intr |-> FALSE, sent |-> 0, len |-> 0, size |-> 0 ]
TcpResNone ==
    [ done |-> FALSE, op |-> "none", pcb |-> 0, ret |-> 0, data |-> << >>,
      first |-> 0, size |-> 0, eintr |-> FALSE ]
TcpReturn(op, i, ret, data, first, size) ==
    [ done |-> TRUE, op |-> op, pcb |-> i, ret |-> ret, data |-> data,
      first |-> first, size |-> size, eintr |-> FALSE ]
\* return -1 with errno = EINTR
TcpReturnEintr(op, i) ==
    [ done |-> TRUE, op |-> op, pcb |-> i, ret |-> -1, data |-> << >>,
      first |-> 0, size |-> 0, eintr |-> TRUE ]
TcpScriptOff == [ stage |-> -1, out |-> << >> ]

InitTcp ==
    /\ tcpPcbs = [ i \in 1..TcpPcbSize |-> TcpPcbFree ]
    /\ tcpThreads = [ t \in TcpThreads |-> TcpThreadIdle ]
    /\ tcpOut = << >>
    /\ tcpRes = TcpResNone
    /\ tcpScript = TcpScriptOff

\* the mutex is free and the last step has been taken note of
TcpQuiet ==
    /\ ~tcpRes.done
    /\ tcpOut = << >>
    /\ \A t \in TcpThreads : tcpThreads[t].op # "destroy"

\* the segments the peer may send in the current state: a SYN, an RST, for
\* a listening or a free block a FIN and segments with two of SYN, ACK and RST, and
\* ACK segments around rcv.nxt and snd.una..snd.nxt, empty or with five
\* bytes of the peer's stream (a byte is written as its offset from irs + 1)
TcpSegments(pcb) ==
    { [ seq |-> q, ack |-> U32(0), flg |-> { "SYN" }, wnd |-> TcpBufSize, data |-> << >> ] :
        q \in { U32(1000), <<65535, 65519>> } }
    \cup { [ seq |-> q, ack |-> U32(0), flg |-> { "RST" }, wnd |-> 0, data |-> << >> ] :
            q \in { Sub32(pcb.rcv_nxt, U32(1)), pcb.rcv_nxt } }
    \cup ( IF pcb.state \in { "LISTEN", "FREE" }
           THEN { [ seq |-> U32(1000), ack |-> U32(77), flg |-> f, wnd |-> TcpBufSize,
                    data |-> << >> ] :
                    f \in { { "FIN" }, { "SYN", "ACK" }, { "RST", "ACK" }, { "RST", "SYN" } } }
           ELSE { } )
    \cup { [ seq |-> q, ack |-> a, flg |-> { "ACK" }, wnd |-> w, data |-> << >> ] :
            q \in { Sub32(pcb.rcv_nxt, U32(1)), pcb.rcv_nxt, Add32(pcb.rcv_nxt, U32(2)) },
            a \in { Sub32(pcb.snd_una, U32(1)), pcb.snd_una, Add32(pcb.snd_una, U32(1)),
                    pcb.snd_nxt, Add32(pcb.snd_nxt, U32(1)) },
            w \in { 0, 3, TcpBufSize } }
    \cup { [ seq |-> q, ack |-> a, flg |-> { "ACK", "PSH" }, wnd |-> TcpBufSize,
             data |-> [ j \in 1..5 |-> Sub32(q, Add32(pcb.irs, U32(1)))[2] + j - 1 ] ] :
            a \in { pcb.snd_nxt, Add32(pcb.snd_nxt, U32(1)) },
            q \in { x \in { Sub32(pcb.rcv_nxt, U32(1)), pcb.rcv_nxt,
                            Add32(pcb.rcv_nxt, U32(2)) } :
                      /\ Sub32(x, Add32(pcb.irs, U32(1)))[1] = 0
                      /\ Sub32(x, Add32(pcb.irs, U32(1)))[2] + 5 <= MaxStream } }

\* the scenario: on a block listening on 192.0.2.2:7 with nothing else
\* arriving, SYN(seq = 1000), then the ACK of the SYN+ACK, then five bytes
\* at seq 1001; out collects what these three arrivals made the stack send
TcpScriptNext(sc, pcb, seg, out) ==
    IF sc.stage = 0 /\ seg.flg = { "SYN" } /\ seg.seq = U32(1000)
    THEN [ stage |-> 1, out |-> out ]
    ELSE IF sc.stage = 1 /\ seg.flg = { "ACK" } /\ seg.seq = U32(1001)
            /\ seg.ack = Add32(pcb.iss, U32(1))
    THEN [ stage |-> 2, out |-> sc.out \o out ]
    ELSE IF sc.stage = 2 /\ seg.flg = { "ACK", "PSH" } /\ seg.seq = U32(1001)
            /\ seg.ack = Add32(pcb.iss, U32(1))
    THEN [ stage |-> 3, out |-> sc.out \o out ]
    ELSE TcpScriptOff

\* tcp_input: a segment that fails the checksum is dropped, any other is
\* handed to tcp_segment_arrives under the mutex
TcpInputCall(seg, sumOk, iss) ==
    /\ TcpQuiet
    /\      IF ~sumOk
            THEN UNCHANGED tcpVars
            ELSE \E r \in { tcp_segment_arrives(tcpPcbs, seg, TcpLocal, TcpPeer, iss) } :
                    /\ tcpPcbs' = r.pcbs
                    /\ tcpOut' = r.out
                    /\ tcpThreads' = IF r.wake = 0 THEN tcpThreads
                                     ELSE sched_wakeup(tcpThreads, r.wake)
                    /\ tcpScript' = TcpScriptNext(tcpScript, tcpPcbs[1], seg, r.out)
                    /\ UNCHANGED tcpRes
    /\ TcpOnly

\* the initial send sequence numbers random() may give for a segment
TcpIssOf(seg) == IF seg.flg = { "SYN" } THEN { U32(300), <<32767, 65535>> } ELSE { U32(0) }

tcp_input ==
    \E i \in 1..TcpPcbSize :
        \E seg \in TcpSegments(tcpPcbs[i]), sumOk \in BOOLEAN :
            \E iss \in TcpIssOf(seg) : TcpInputCall(seg, sumOk, iss)

\* event_handler: every block that is not FREE is interrupted
TcpEventHandler ==
    /\ TcpQuiet
    /\ tcpPcbs' = [ i \in 1..TcpPcbSize |->
                      IF tcpPcbs[i].state # "FREE" THEN sched_interrupt(tcpPcbs[i])
                      ELSE tcpPcbs[i] ]
    /\ tcpThreads' = [ t \in TcpThreads |->
                         IF /\ tcpThreads[t].op \in { "open", "send", "receive" }
                            /\ ~tcpThreads[t].orphan
                            /\ tcpPcbs[tcpThreads[t].pcb].state # "FREE"
                         THEN [ tcpThreads[t] EXCEPT !.woken = TRUE, !.intr = TRUE ]
                         ELSE tcpThreads[t] ]
    /\ tcpScript' = TcpScriptOff
    /\ UNCHANGED <<tcpOut, tcpRes>>
    /\ TcpOnly

\* a thread left blocked on a cleared context may come back at any time
TcpOrphanWoken(t) ==
    /\ TcpQuiet
    /\ tcpThreads[t].orphan
    /\ ~tcpThreads[t].woken
    /\ tcpThreads' = [ tcpThreads EXCEPT ![t].woken = TRUE ]
    /\ UNCHANGED <<tcpPcbs, tcpOut, tcpRes, tcpScript>>
    /\ TcpOnly

\* thread t returns res with the blocks as given
TcpDone(t, pcbs, res) ==
    /\ tcpPcbs' = pcbs
    /\ tcpThreads' = [ tcpThreads EXCEPT ![t] = TcpThreadIdle ]
    /\ tcpRes' = res

\* thread t blocks in sched_sleep on block i
TcpBlock(t, pcbs, i, th) ==
    /\ tcpPcbs' = [ pcbs EXCEPT ![i].wc = @ + 1 ]
    /\ tcpThreads' = [ tcpThreads EXCEPT ![t] = [ th EXCEPT !.pcb = i ] ]
    /\ UNCHANGED tcpRes

\* thread t calls tcp_pcb_release on block i and returns res, unless it
\* stays in sched_ctx_destroy
TcpRelease(t, pcbs, i, res) ==
    \E d \in sched_ctx_destroy([ tcpThreads EXCEPT ![t] = TcpThreadIdle ], i) :
    \E x \in { tcp_pcb_release(pcbs, [ tcpThreads EXCEPT ![t] = TcpThreadIdle ], i, d) } :
        /\ tcpPcbs' = x.pcbs
        /\ tcpThreads' = IF x.blocked
                         THEN [ x.ths EXCEPT ![t] = [ TcpThreadIdle EXCEPT !.op = "destroy",
                                                                           !.pcb = i ] ]
                         ELSE x.ths
        /\ tcpRes' = IF x.blocked THEN TcpResNone ELSE res

\* tcp_open_rfc793 up to its first sched_sleep or its return
tcp_open_rfc793(t) ==
    /\ TcpQuiet
    /\ tcpThreads[t].op = "idle"
    /\ \E active \in BOOLEAN :
        \E i \in { tcp_pcb_alloc(tcpPcbs) } :
            IF i = 0
            THEN /\ TcpDone(t, tcpPcbs, TcpReturn("open", 0, -1, << >>, 0, 0))
                 /\ UNCHANGED tcpScript
            ELSE IF active
            THEN /\ TcpRelease(t, [ tcpPcbs EXCEPT ![i] =
                                      [ sched_ctx_init(tcpPcbs[i]) EXCEPT !.state = "CLOSED" ] ],
                               i, TcpReturn("open", i, -1, << >>, 0, 0))
                 /\ UNCHANGED tcpScript
            ELSE /\ TcpBlock(t, [ tcpPcbs EXCEPT ![i] =
                                    [ sched_ctx_init(tcpPcbs[i]) EXCEPT !.state = "LISTEN",
                                                                        !.local = TcpLocal ] ],
                             i, [ TcpThreadIdle EXCEPT !.op = "open", !.st = "LISTEN" ])
                 /\ tcpScript' = IF i = 1 /\ \A j \in 2..TcpPcbSize : tcpPcbs[j].state = "FREE"
                                 THEN [ stage |-> 0, out |-> << >> ]
                                 ELSE tcpScript
    /\ UNCHANGED tcpOut
    /\ TcpOnly

\* tcp_open_rfc793 from the return of pthread_cond_wait on
TcpOpenWoken(t) ==
    /\ TcpQuiet
    /\ tcpThreads[t].op = "open"
    /\ tcpThreads[t].woken
    /\ \E i \in { tcpThreads[t].pcb } :
       \E w \in { SchedSleepReturn(tcpPcbs[i]) } :
        IF w.ret = -1
        THEN /\ TcpRelease(t, [ tcpPcbs EXCEPT ![i] = [ w.pcb EXCEPT !.state = "CLOSED" ] ],
                           i, TcpReturnEintr("open", i))
             /\ tcpScript' = IF i = 1 THEN TcpScriptOff ELSE tcpScript
        ELSE IF w.pcb.state = tcpThreads[t].st \/ w.pcb.state = "SYN_RECEIVED"
        THEN /\ TcpBlock(t, [ tcpPcbs EXCEPT ![i] = w.pcb ], i,
                         [ TcpThreadIdle EXCEPT !.op = "open", !.st = w.pcb.state ])
             /\ UNCHANGED tcpScript
        ELSE IF w.pcb.state # "ESTABLISHED"
        THEN /\ TcpRelease(t, [ tcpPcbs EXCEPT ![i] = [ w.pcb EXCEPT !.state = "CLOSED" ] ],
                           i, TcpReturn("open", i, -1, << >>, 0, 0))
             /\ tcpScript' = IF i = 1 THEN TcpScriptOff ELSE tcpScript
        ELSE /\ TcpDone(t, [ tcpPcbs EXCEPT ![i] = w.pcb ],
                        TcpReturn("open", i, i - 1, << >>, 0, 0))
             /\ UNCHANGED tcpScript
    /\ UNCHANGED tcpOut
    /\ TcpOnly

\* tcp_close: an RST is sent and the block is released
TcpCloseCall(t, id) ==
    /\ TcpQuiet
    /\ tcpThreads[t].op = "idle"
    /\  IF tcp_pcb_get(tcpPcbs, id) = 0
        THEN /\ TcpDone(t, tcpPcbs, TcpReturn("close", 0, -1, << >>, 0, 0))
             /\ UNCHANGED <<tcpOut, tcpScript>>
        ELSE /\ tcpOut' = << tcp_output(tcpPcbs[id + 1], { "RST" }, 0) >>
             /\ TcpRelease(t, tcpPcbs, id + 1, TcpReturn("close", id + 1, 0, << >>, 0, 0))
             /\ tcpScript' = IF id = 0 THEN TcpScriptOff ELSE tcpScript
    /\ TcpOnly

tcp_close(t) == \E id \in TcpCallIds : TcpCloseCall(t, id)

\* variant of the interrupted return that reports EINTR whatever was sent
TcpSendInterruptedEintr(i, sent) == TcpReturnEintr("send", i)

\* what tcp_send returns when sched_sleep has returned -1
TcpSendInterrupted(i, sent) ==
    IF sent = 0 THEN TcpReturnEintr("send", i) ELSE TcpReturn("send", i, sent, << >>, 0, 0)

\* tcp_send from the state check at RETRY, with p the block as it is then,
\* up to its return or its sleep
TcpSendFrom(t, p, i, sent, len, ipOk) ==
    IF p.state # "ESTABLISHED" \/ TcpMss(routes, p.foreign.addr) = 0
    THEN /\ TcpDone(t, [ tcpPcbs EXCEPT ![i] = p ], TcpReturn("send", i, -1, << >>, 0, 0))
         /\ tcpOut' = << >>
         /\ UNCHANGED tcpScript
    ELSE \E r \in { TcpSendLoop(p, TcpMss(routes, p.foreign.addr), sent, len, << >>, ipOk) } :
            /\ tcpOut' = r.out
            /\ IF r.status = "sleep" /\ r.pcb.interrupted
               THEN /\ TcpDone(t, [ tcpPcbs EXCEPT ![i] = r.pcb ],
                               TcpSendInterrupted(i, r.sent))
                    /\ UNCHANGED tcpScript
               ELSE IF r.status = "sleep"
               THEN /\ TcpBlock(t, [ tcpPcbs EXCEPT ![i] = r.pcb ], i,
                                [ TcpThreadIdle EXCEPT !.op = "send", !.sent = r.sent,
                                                       !.len = len ])
                    /\ UNCHANGED tcpScript
               ELSE IF r.status = "done"
               THEN /\ TcpDone(t, [ tcpPcbs EXCEPT ![i] = r.pcb ],
                               TcpReturn("send", i, r.sent, << >>, 0, 0))
                    /\ UNCHANGED tcpScript
               ELSE /\ TcpRelease(t, [ tcpPcbs EXCEPT ![i] = [ r.pcb EXCEPT !.state = "CLOSED" ] ],
                                  i, TcpReturn("send", i, -1, << >>, 0, 0))
                    /\ tcpScript' = IF i = 1 THEN TcpScriptOff ELSE tcpScript

TcpSendCall(t, id, len, ipOk) ==
    /\ TcpQuiet
    /\ tcpThreads[t].op = "idle"
    /\  IF tcp_pcb_get(tcpPcbs, id) = 0
        THEN /\ TcpDone(t, tcpPcbs, TcpReturn("send", 0, -1, << >>, 0, 0))
             /\ UNCHANGED <<tcpOut, tcpScript>>
        ELSE /\ Sub32(tcpPcbs[id + 1].snd_nxt, tcpPcbs[id + 1].iss)[2] + len <= MaxSndBytes + 1
             /\ TcpSendFrom(t, tcpPcbs[id + 1], id + 1, 0, len, ipOk)
    /\ TcpOnly

tcp_send(t) ==
    \E id \in TcpCallIds, len \in { 5 }, ipOk \in BOOLEAN : TcpSendCall(t, id, len, ipOk)

TcpSendWoken(t) ==
    /\ TcpQuiet
    /\ tcpThreads[t].op = "send"
    /\ tcpThreads[t].woken
    /\ \E ipOk \in BOOLEAN, i \in { tcpThreads[t].pcb } :
       \E w \in { SchedSleepReturn(tcpPcbs[i]) } :
        IF w.ret = -1
        THEN /\ TcpDone(t, [ tcpPcbs EXCEPT ![i] = w.pcb ],
                        TcpSendInterrupted(i, tcpThreads[t].sent))
             /\ UNCHANGED <<tcpOut, tcpScript>>
        ELSE TcpSendFrom(t, w.pcb, i, tcpThreads[t].sent, tcpThreads[t].len, ipOk)
    /\ TcpOnly

\* variant of tcp_receive that leaves the delivered bytes in the buffer
TcpReceiveFromNoShift(t, p, i, size) ==
    \E remain \in { TcpBufSize - p.rcv_wnd } :
        IF p.state # "ESTABLISHED"
        THEN /\ TcpDone(t, [ tcpPcbs EXCEPT ![i] = p ],
                        TcpReturn("receive", i, -1, << >>, 0, size))
             /\ UNCHANGED tcpScript
        ELSE IF remain = 0 /\ p.interrupted
        THEN /\ TcpDone(t, [ tcpPcbs EXCEPT ![i] = p ], TcpReturnEintr("receive", i))
             /\ UNCHANGED tcpScript
        ELSE IF remain = 0
        THEN /\ TcpBlock(t, [ tcpPcbs EXCEPT ![i] = p ], i,
                         [ TcpThreadIdle EXCEPT !.op = "receive", !.size = size ])
             /\ UNCHANGED tcpScript
        ELSE \E len \in { Min(size, remain) } :
                /\ TcpDone(t, [ tcpPcbs EXCEPT ![i] =
                                  [ p EXCEPT !.buf = p.buf,
                                             !.rcv_wnd = (p.rcv_wnd + len) % U16Mod,
                                             !.delivered = @ + len ] ],
                           TcpReturn("receive", i, len, SubSeq(p.buf, 1, len),
                                     p.delivered, size))
                /\ tcpScript' = IF i = 1 /\ tcpScript.stage = 3
                                THEN [ tcpScript EXCEPT !.stage = 4 ]
                                ELSE IF i = 1 THEN TcpScriptOff ELSE tcpScript

\* tcp_receive from the state check at RETRY, with p the block as it is
\* then, up to its return or its sleep
TcpReceiveFrom(t, p, i, size) ==
    \E remain \in { TcpBufSize - p.rcv_wnd } :
        IF p.state # "ESTABLISHED"
        THEN /\ TcpDone(t, [ tcpPcbs EXCEPT ![i] = p ],
                        TcpReturn("receive", i, -1, << >>, 0, size))
             /\ UNCHANGED tcpScript
        ELSE IF remain = 0 /\ p.interrupted
        THEN /\ TcpDone(t, [ tcpPcbs EXCEPT ![i] = p ], TcpReturnEintr("receive", i))
             /\ UNCHANGED tcpScript
        ELSE IF remain = 0
        THEN /\ TcpBlock(t, [ tcpPcbs EXCEPT ![i] = p ], i,
                         [ TcpThreadIdle EXCEPT !.op = "receive", !.size = size ])
             /\ UNCHANGED tcpScript
        ELSE \E len \in { Min(size, remain) } :
                /\ TcpDone(t, [ tcpPcbs EXCEPT ![i] =
                                  [ p EXCEPT !.buf = SubSeq(p.buf, len + 1, remain),
                                             !.rcv_wnd = (p.rcv_wnd + len) % U16Mod,
                                             !.delivered = @ + len ] ],
                           TcpReturn("receive", i, len, SubSeq(p.buf, 1, len),
                                     p.delivered, size))
                /\ tcpScript' = IF i = 1 /\ tcpScript.stage = 3
                                THEN [ tcpScript EXCEPT !.stage = 4 ]
                                ELSE IF i = 1 THEN TcpScriptOff ELSE tcpScript

TcpReceiveCall(t, id, size) ==
    /\ TcpQuiet
    /\ tcpThreads[t].op = "idle"
    /\  IF tcp_pcb_get(tcpPcbs, id) = 0
        THEN /\ TcpDone(t, tcpPcbs, TcpReturn("receive", 0, -1, << >>, 0, size))
             /\ UNCHANGED tcpScript
        ELSE TcpReceiveFrom(t, tcpPcbs[id + 1], id + 1, size)
    /\ UNCHANGED tcpOut
    /\ TcpOnly

\* the buffer sizes tcp_receive is called with
TcpReceiveSizes == { 2, 2048 }

tcp_receive(t) == \E id \in TcpCallIds, size \in TcpReceiveSizes : TcpReceiveCall(t, id, size)

TcpReceiveWoken(t) ==
    /\ TcpQuiet
    /\ tcpThreads[t].op = "receive"
    /\ tcpThreads[t].woken
    /\ \E i \in { tcpThreads[t].pcb } :
       \E w \in { SchedSleepReturn(tcpPcbs[i]) } :
        IF w.ret = -1
        THEN /\ TcpDone(t, [ tcpPcbs EXCEPT ![i] = w.pcb ], TcpReturnEintr("receive", i))
             /\ UNCHANGED tcpScript
        ELSE TcpReceiveFrom(t, w.pcb, i, tcpThreads[t].size)
    /\ UNCHANGED tcpOut
    /\ TcpOnly

\* the caller and the peer have taken note of the last step
TcpStepDone ==
    /\ tcpRes.done \/ tcpOut # << >>
    /\ tcpRes' = TcpResNone
    /\ tcpOut' = << >>
    /\ UNCHANGED <<tcpPcbs, tcpThreads, tcpScript>>
    /\ TcpOnly

NextTcp ==
    \/ tcp_input
    \/ TcpEventHandler
    \/ \E t \in TcpAppThreads : tcp_open_rfc793(t)
    \/ \E t \in TcpAppThreads : TcpOpenWoken(t)
    \/ \E t \in TcpThreads : tcp_close(t)
    \/ \E t \in TcpAppThreads : tcp_send(t)
    \/ \E t \in TcpAppThreads : TcpSendWoken(t)
    \/ \E t \in TcpAppThreads : tcp_receive(t)
    \/ \E t \in TcpAppThreads : TcpReceiveWoken(t)
    \/ \E t \in TcpAppThreads : TcpOrphanWoken(t)
    \/ TcpStepDone

(***************************************************************************)
(* ip.c, icmp.c: datagram input                                            *)
(***************************************************************************)
IP_PROTOCOL_ICMP == 1
ICMP_HDR_SIZE == 8
ICMP_TYPE_ECHOREPLY == 0
ICMP_TYPE_ECHO == 8

\* ip_init, icmp_init and udp_init: the registered upper protocols
IpInputProtocols == { IP_PROTOCOL_ICMP, IP_PROTOCOL_UDP }

\* the checks of ip_input in the order of the code (no interface: fs = {});
\* without the test of the MF bit and the fragment offset
ip_input_accepts_fragments(bytes, fs) ==
    IF Len(bytes) < IP_HDR_SIZE_MIN THEN FALSE
    ELSE IF bytes[1] \div 16 # 4 THEN FALSE
    ELSE IF Len(bytes) < (bytes[1] % 16) * 4 THEN FALSE
    ELSE IF Len(bytes) < ntoh16(SubSeq(bytes, 3, 4)) THEN FALSE
    ELSE IF cksum16(SubSeq(bytes, 1, (bytes[1] % 16) * 4), 0) # 0 THEN FALSE
    ELSE IF fs = { } THEN FALSE
    ELSE \E f \in fs : SubSeq(bytes, 17, 20) \in { f.unicast, f.broadcast, IP_ADDR_BROADCAST }
ip_input_accepts(bytes, fs) ==
    IF Len(bytes) < IP_HDR_SIZE_MIN THEN FALSE
    ELSE IF bytes[1] \div 16 # 4 THEN FALSE
    ELSE IF Len(bytes) < (bytes[1] % 16) * 4 THEN FALSE
    ELSE IF Len(bytes) < ntoh16(SubSeq(bytes, 3, 4)) THEN FALSE
    ELSE IF cksum16(SubSeq(bytes, 1, (bytes[1] % 16) * 4), 0) # 0 THEN FALSE
    ELSE IF (ntoh16(SubSeq(bytes, 7, 8)) \div 8192) % 2 = 1
            \/ ntoh16(SubSeq(bytes, 7, 8)) % 8192 # 0 THEN FALSE
    ELSE IF fs = { } THEN FALSE
    ELSE \E f \in fs : SubSeq(bytes, 17, 20) \in { f.unicast, f.broadcast, IP_ADDR_BROADCAST }

\* the call ip_input makes of the handler of the datagram's protocol, << >>
\* if it makes none: hdr + hlen, total - hlen (a size_t: wraps when total is
\* less than hlen), hdr->src, hdr->dst, iface
ip_input(bytes, fs) ==
    IF ~ip_input_accepts(bytes, fs) \/ bytes[10] \notin IpInputProtocols THEN << >>
    ELSE << [ protocol |-> bytes[10],
              data |-> SubSeq(bytes, (bytes[1] % 16) * 4 + 1, ntoh16(SubSeq(bytes, 3, 4))),
              wrapped |-> ntoh16(SubSeq(bytes, 3, 4)) < (bytes[1] % 16) * 4,
              src |-> SubSeq(bytes, 13, 16), dst |-> SubSeq(bytes, 17, 20),
              iface |-> CHOOSE f \in fs : TRUE ] >>

\* the message icmp_output builds: type, code, checksum, values, data
IcmpMessage(type, code, values, data) ==
    << type, code >> \o hton16(cksum16(<< type, code, 0, 0 >> \o values \o data, 0))
       \o values \o data

\* icmp_input: the call of icmp_output it makes ([ msg, src, dst ]), << >>
\* if it makes none
icmp_input_any_type(data, src, dst, iface) ==
    IF Len(data) < ICMP_HDR_SIZE THEN << >>
    ELSE IF cksum16(data, 0) # 0 THEN << >>
    ELSE << [ msg |-> IcmpMessage(ICMP_TYPE_ECHOREPLY, data[2], SubSeq(data, 5, 8),
                                   SubSeq(data, ICMP_HDR_SIZE + 1, Len(data))),
              src |-> iface.unicast, dst |-> src ] >>
icmp_input(data, src, dst, iface) ==
    IF Len(data) < ICMP_HDR_SIZE THEN << >>
    ELSE IF cksum16(data, 0) # 0 THEN << >>
    ELSE IF data[1] = ICMP_TYPE_ECHO
    THEN << [ msg |-> IcmpMessage(ICMP_TYPE_ECHOREPLY, data[2], SubSeq(data, 5, 8),
                                   SubSeq(data, ICMP_HDR_SIZE + 1, Len(data))),
              src |-> iface.unicast, dst |-> src ] >>
    ELSE << >>

\* a datagram as a sender builds it: header of (vhl % 16) * 4 bytes with the
\* checksum over it (plus bad), then the payload
IpDatagram(vhl, total, offset, protocol, src, dst, bad, payload) ==
    LET hlen == (vhl % 16) * 4
        opts == [ i \in 1..(hlen - IP_HDR_SIZE_MIN) |-> 0 ]
        hdr == << vhl, 0 >> \o hton16(total) \o << 0, 1 >> \o hton16(offset)
                 \o << 64, protocol, 0, 0 >> \o src \o dst \o opts
        sum == (cksum16(SubSeq(hdr, 1, hlen), 0) + bad) % U16Mod
    IN  SubSeq(hdr, 1, 10) \o hton16(sum) \o SubSeq(hdr, 13, Len(hdr)) \o payload

\* inputs: ICMP messages and other payloads
RxEchoData == << 97, 98, 99, 100 >>
RxPayloads ==
    { IcmpMessage(ICMP_TYPE_ECHO, 0, << 18, 52, 0, 1 >>, RxEchoData),
      IcmpMessage(ICMP_TYPE_ECHO, 0, << 18, 52, 0, 2 >>, << >>),
      IcmpMessage(ICMP_TYPE_ECHO, 3, << 0, 7, 255, 255 >>, << 97, 98, 99 >>),
      IcmpMessage(ICMP_TYPE_ECHOREPLY, 0, << 18, 52, 0, 1 >>, RxEchoData),
      IcmpMessage(3, 1, << 0, 0, 0, 0 >>, RxEchoData),
      << ICMP_TYPE_ECHO, 0, 0, 0, 18, 52, 0, 1 >> \o RxEchoData,
      << ICMP_TYPE_ECHO, 0, 247, 255 >> }
RxSrcs == { <<192, 0, 2, 1>>, <<192, 0, 2, 3>>, <<127, 0, 0, 1>>, <<10, 1, 1, 1>> }
RxDsts == { <<192, 0, 2, 2>>, <<192, 0, 2, 255>>, IP_ADDR_BROADCAST, <<192, 0, 2, 3>>,
            <<127, 0, 0, 1>> }
RxDevs == { "net0", "lo", "net1" }

\* datagrams as received: well-formed ones for every protocol, source,
\* destination and payload, and ones that differ from a well-formed one in
\* the version, the header length, the total length, the checksum, the
\* flags and fragment offset, or in the number of bytes received
RxDatagrams ==
    { IpDatagram(69, IP_HDR_SIZE_MIN + Len(pl), 0, proto, src, dst, 0, pl) :
        proto \in { IP_PROTOCOL_ICMP, IP_PROTOCOL_UDP, 99 }, src \in RxSrcs, dst \in RxDsts,
        pl \in RxPayloads }
    \cup { IpDatagram(vhl, total, offset, IP_PROTOCOL_ICMP, <<192, 0, 2, 1>>, dst, bad, pl) \o pad :
             vhl \in { 69, 101, 70, 68 }, total \in { 12, 32, 36 },
             offset \in { 0, 8192, 1, 8193, 16384 }, dst \in { <<192, 0, 2, 2>>, <<192, 0, 2, 3>> },
             bad \in { 0, 1 },
             pl \in { IcmpMessage(ICMP_TYPE_ECHO, 0, << 18, 52, 0, 1 >>, RxEchoData) },
             pad \in { << >>, << 0, 0 >> } }
    \cup { SubSeq(IpDatagram(69, 19, 0, IP_PROTOCOL_ICMP, <<192, 0, 2, 1>>, <<192, 0, 2, 2>>,
                             0, << >>), 1, 19) }

RxResNone ==
    [ done |-> FALSE, op |-> "none", dev |-> "lo", in |-> << >>, delivered |-> << >>,
      out |-> << >>, ret |-> 0, crashed |-> FALSE ]

InitRx == rxRes = RxResNone /\ arpPend = << >>

\* ip_input for a datagram received on dev, with the handler it calls:
\* icmp_input and its icmp_output, udp_input on a host without an open
\* endpoint; a handler that is given a wrapped length reads past the buffer
IpInput ==
    /\ Quiet
    /\ ipId < IpIdStart + MaxIpOutputs
    /\ \E dev \in RxDevs, bytes \in RxDatagrams, txOk \in BOOLEAN :
       \E call \in { ip_input(bytes, net_device_get_iface(ifaces, dev)) } :
       \E out \in { IF call = << >> \/ call[1].protocol # IP_PROTOCOL_ICMP \/ call[1].wrapped
                    THEN << >>
                    ELSE icmp_input(call[1].data, call[1].src, call[1].dst, call[1].iface) } :
          IF out = << >>
          THEN /\ rxRes' = [ done |-> TRUE, op |-> "ip", dev |-> dev, in |-> bytes,
                             delivered |-> call, out |-> << >>, ret |-> 0,
                             crashed |-> call # << >> /\ call[1].wrapped
                                         /\ call[1].protocol = IP_PROTOCOL_ICMP ]
               /\ UNCHANGED <<caches, txFrames, ipId>>
          ELSE \E r \in { ip_output(routes, caches, devUp, IP_PROTOCOL_ICMP, Len(out[1].msg),
                                    out[1].src, out[1].dst, ipId, now, txOk) } :
                  /\ rxRes' = [ done |-> TRUE, op |-> "ip", dev |-> dev, in |-> bytes,
                                delivered |-> call, out |-> out, ret |-> r.ret,
                                crashed |-> FALSE ]
                  /\ caches' = r.cache
                  /\ txFrames' = r.frames
                  /\ ipId' = r.id
    /\ UNCHANGED <<devUp, now, ticks, timerLast, arpHist, ipRes>>
    /\ RxOnly

\* the results of a step are taken: the frames go on the wire
RxStepDone ==
    /\ ~Quiet \/ rxRes.done
    /\ txFrames' = << >>
    /\ ipRes' = IpResNone
    /\ rxRes' = RxResNone
    /\ UNCHANGED <<devUp, caches, now, ticks, timerLast, arpHist, ipId>>
    /\ RxOnly

\* net_run while no result is pending
RxNetRun == NetRun /\ Quiet

(***************************************************************************)
(* net.c: opening, closing and output on one device                        *)
(***************************************************************************)
\* the lengths net_device_output is called with
DevLens == { 0, 1500, 1501, 65535, 65536 }

DevReturn(op, dev, len, ret) ==
    [ RxResNone EXCEPT !.done = TRUE, !.op = op, !.dev = dev, !.in = << len >>, !.ret = ret ]

\* net_device_open variant that does not test the UP flag
net_device_open_again(up, dev, drvOk) ==
    IF NetDevice(dev).type = "ETHERNET" /\ ~drvOk
    THEN [ ret |-> -1, up |-> up ]
    ELSE [ ret |-> 0, up |-> up \cup { dev } ]

\* net_device_open: the result and the devices that are UP afterwards;
\* drvOk is the outcome of the driver's open, which the loopback lacks
net_device_open(up, dev, drvOk) ==
    IF dev \in up THEN [ ret |-> -1, up |-> up ]
    ELSE IF NetDevice(dev).type = "ETHERNET" /\ ~drvOk
    THEN [ ret |-> -1, up |-> up ]
    ELSE [ ret |-> 0, up |-> up \cup { dev } ]

\* net_device_close
net_device_close(up, dev, drvOk) ==
    IF dev \notin up THEN [ ret |-> -1, up |-> up ]
    ELSE IF NetDevice(dev).type = "ETHERNET" /\ ~drvOk
    THEN [ ret |-> -1, up |-> up ]
    ELSE [ ret |-> 0, up |-> up \ { dev } ]

NetDeviceOpen(dev, drvOk) ==
    /\ Quiet
    /\ \E r \in { net_device_open(devUp, dev, drvOk) } :
          /\ devUp' = r.up
          /\ rxRes' = DevReturn("open", dev, 0, r.ret)
    /\ UNCHANGED <<caches, now, ticks, timerLast, txFrames, arpHist, ipId, ipRes>>
    /\ RxOnly

NetDeviceClose(dev, drvOk) ==
    /\ Quiet
    /\ \E r \in { net_device_close(devUp, dev, drvOk) } :
          /\ devUp' = r.up
          /\ rxRes' = DevReturn("close", dev, 0, r.ret)
    /\ UNCHANGED <<caches, now, ticks, timerLast, txFrames, arpHist, ipId, ipRes>>
    /\ RxOnly

\* a call of net_device_output; the frames in txFrames are those the
\* driver's transmit has been called with
NetDeviceOutput(dev, len, txOk) ==
    /\ Quiet
    /\ \E r \in { net_device_output(devUp, dev, "IP", << >>, len,
                                     NetDevice(dev).broadcast, txOk) } :
          /\ txFrames' = r.frames
          /\ rxRes' = DevReturn("output", dev, len, r.ret)
    /\ UNCHANGED <<devUp, caches, now, ticks, timerLast, arpHist, ipId, ipRes>>
    /\ RxOnly

\* the list `devices`: net_device_register links a device at the head
NetDeviceList == << "net1", "net0", "lo" >>

\* net_shutdown is called by the main thread
NetShutdownCall ==
    /\ Quiet
    /\ netShut.pc = "idle"
    /\ netShut' = [ pc |-> "close", next |-> 1, wasUp |-> devUp, closed |-> {} ]
    /\ UNCHANGED <<protoQueues, softirqPending, intrUp, netSeen, netAccepted, netHandled,
                   softirqRuns>>
    /\ UNCHANGED <<routeVars, ipVars, udpVars, tcpVars, rxVars>>

\* net_shutdown: one turn of the loop over the devices
NetShutdownClose ==
    /\ netShut.pc = "close"
    /\ netShut.next <= Len(NetDeviceList)
    /\ \E drvOk \in BOOLEAN :
          devUp' = net_device_close(devUp, NetDeviceList[netShut.next], drvOk).up
    /\ netShut' = [ netShut EXCEPT !.next = @ + 1,
                                   !.closed = @ \cup { NetDeviceList[netShut.next] } ]
    /\ UNCHANGED <<protoQueues, softirqPending, intrUp, netSeen, netAccepted, netHandled,
                   softirqRuns>>
    /\ UNCHANGED <<caches, now, ticks, timerLast, txFrames, arpHist, ipId, ipRes>>
    /\ UNCHANGED <<routeVars, udpVars, tcpVars, rxVars>>

\* net_shutdown after the loop: intr_shutdown sends SIGHUP to the interrupt
\* thread, which leaves its loop, and joins it
NetShutdownIntr ==
    /\ netShut.pc = "close"
    /\ netShut.next > Len(NetDeviceList)
    /\ intrUp' = FALSE
    /\ netShut' = [ netShut EXCEPT !.pc = "done" ]
    /\ UNCHANGED <<protoQueues, softirqPending, netSeen, netAccepted, netHandled, softirqRuns>>
    /\ UNCHANGED <<routeVars, ipVars, udpVars, tcpVars, rxVars>>

\* net_run, which the main thread calls before net_shutdown
ShutNetRun == NetRun /\ netShut.pc = "idle"

\* the stack from net_run to the end of net_shutdown, with the interrupt
\* thread at work
NextShut ==
    \/ ShutNetRun
    \/ NetInputHandler
    \/ NetSoftirqHandler
    \/ NetShutdownCall
    \/ NetShutdownClose
    \/ NetShutdownIntr

NextDev ==
    \/ \E dev \in Devices, drvOk \in BOOLEAN : NetDeviceOpen(dev, drvOk)
    \/ \E dev \in Devices, drvOk \in BOOLEAN : NetDeviceClose(dev, drvOk)
    \/ \E dev \in Devices, len \in DevLens, txOk \in BOOLEAN : NetDeviceOutput(dev, len, txOk)
    \/ RxStepDone

NextRx ==
    \/ RxNetRun
    \/ ArpInput
    \/ IpInput
    \/ RxStepDone


(***************************************************************************)
(* Specifications                                                          *)
(***************************************************************************)
\* the routing operations, before any interface is registered
InitRouteSpec ==
    /\ InitRx
    /\ InitUdp
    /\ InitTcp
    /\ InitRoute
    /\ InitIp
    /\ InitNet

SpecRoute == InitRouteSpec /\ [][NextRoute]_vars

\* IP output and ARP on the host the test programs set up
InitIpSpec ==
    /\ InitRx
    /\ InitUdp
    /\ InitTcp
    /\ InitHost
    /\ InitIp
    /\ InitNet

SpecIp == InitIpSpec /\ [][NextIp]_vars

\* the ARP cache under the two threads that use it
InitArpSpec ==
    /\ InitRx
    /\ InitHost
    /\ InitIp
    /\ InitNet
    /\ InitUdp
    /\ InitTcp

SpecArp == InitArpSpec /\ [][NextArp]_vars

\* frame arrival and the software interrupt on the same host
InitNetSpec ==
    /\ InitRx
    /\ InitUdp
    /\ InitTcp
    /\ InitHost
    /\ InitIp
    /\ InitNet

SpecNet == InitNetSpec /\ [][NextNet]_vars

\* UDP endpoints on the same host
InitUdpSpec ==
    /\ InitRx
    /\ InitHost
    /\ InitIp
    /\ InitNet
    /\ InitUdp
    /\ InitTcp

SpecUdp == InitUdpSpec /\ [][NextUdp]_vars

\* datagram input on the configured host
InitRxSpec ==
    /\ InitRx
    /\ InitHost
    /\ InitIp
    /\ InitNet
    /\ InitUdp
    /\ InitTcp

SpecRx == InitRxSpec /\ [][NextRx]_vars

\* calls on the registered devices
InitDevSpec ==
    /\ InitRx
    /\ InitHost
    /\ InitIp
    /\ InitNet
    /\ InitUdp
    /\ InitTcp

SpecDev == InitDevSpec /\ [][NextDev]_vars

InitShutSpec ==
    /\ InitRx
    /\ InitHost
    /\ InitIp
    /\ InitNet
    /\ InitUdp
    /\ InitTcp

SpecShut == InitShutSpec /\ [][NextShut]_vars

\* the user commands of both socket layers on the configured host, before
\* net_run and without input from the network
NextSock ==
    \/ udp_open
    \/ udp_bind
    \/ udp_close
    \/ udp_sendto
    \/ \E t \in UdpAppThreads : udp_recvfrom(t)
    \/ \E t \in UdpAppThreads : UdpOrphanWoken(t)
    \/ UdpStepDone
    \/ \E t \in TcpAppThreads : tcp_open_rfc793(t)
    \/ \E t \in TcpThreads : tcp_close(t)
    \/ \E t \in TcpAppThreads : tcp_send(t)
    \/ \E t \in TcpAppThreads : tcp_receive(t)
    \/ \E t \in TcpAppThreads : TcpOrphanWoken(t)
    \/ TcpStepDone

InitSockSpec ==
    /\ InitRx
    /\ InitHost
    /\ InitIp
    /\ InitNet
    /\ InitUdp
    /\ InitTcp

SpecSock == InitSockSpec /\ [][NextSock]_vars

\* TCP on the configured host
InitTcpSpec ==
    /\ InitRx
    /\ InitHost
    /\ InitIp
    /\ InitNet
    /\ InitUdp
    /\ InitTcp

SpecTcp == InitTcpSpec /\ [][NextTcp]_vars

\* TCP with a peer that fills the receive buffer: after the handshake the
\* peer sends its stream in order in segments of the largest size an
\* Ethernet frame carries, the application reads whatever is buffered
MaxBulkSegs == 45
\* the data bytes of a full frame of net0
TcpBulkLen == NetDevice("net0").mtu - (IP_HDR_SIZE_MIN + TcpHdrSize)
\* the offset of rcv.nxt in the peer's stream
TcpStreamOff(pcb) ==
    Sub32(pcb.rcv_nxt, Add32(pcb.irs, U32(1)))[1] * U16Mod
        + Sub32(pcb.rcv_nxt, Add32(pcb.irs, U32(1)))[2]
TcpBulkSegments(pcb) ==
    { [ seq |-> U32(1000), ack |-> U32(0), flg |-> { "SYN" }, wnd |-> TcpBufSize,
        data |-> << >> ],
      [ seq |-> pcb.rcv_nxt, ack |-> pcb.snd_nxt, flg |-> { "ACK" }, wnd |-> TcpBufSize,
        data |-> << >> ] }
    \cup IF pcb.state = "ESTABLISHED" /\ TcpStreamOff(pcb) < MaxBulkSegs * TcpBulkLen
         THEN { [ seq |-> pcb.rcv_nxt, ack |-> pcb.snd_nxt, flg |-> { "ACK", "PSH" },
                  wnd |-> TcpBufSize,
                  data |-> [ j \in 1..TcpBulkLen |-> TcpStreamOff(pcb) + j - 1 ] ] }
         ELSE { }

\* no copy has run over the end of a receive buffer; the memory behind the
\* buffer is undefined once one has, and the block is followed no further
TcpBufIntact == \A i \in 1..TcpPcbSize : Len(tcpPcbs[i].buf) <= TcpBufSize

WndInput ==
    /\ TcpBufIntact
    /\ \E i \in 1..TcpPcbSize :
        \E seg \in TcpBulkSegments(tcpPcbs[i]) : TcpInputCall(seg, TRUE, U32(300))
WndReceive == TcpBufIntact /\ TcpReceiveCall("app", 0, TcpBufSize)
WndReceiveWoken == TcpBufIntact /\ TcpReceiveWoken("app")

NextWnd ==
    \/ tcp_open_rfc793("app")
    \/ TcpOpenWoken("app")
    \/ WndInput
    \/ WndReceive
    \/ WndReceiveWoken
    \/ TcpStepDone

InitWndSpec ==
    /\ InitRx
    /\ InitHost
    /\ InitIp
    /\ InitNet
    /\ InitUdp
    /\ InitTcp

SpecWnd == InitWndSpec /\ [][NextWnd]_vars

(***************************************************************************)
(* Claims about the route table                                            *)
(***************************************************************************)
\* positions of the routes of rs that match dst
RouteMatching(rs, dst) ==
    { i \in 1..Len(rs) : AddrAnd(dst, rs[i].netmask) = rs[i].network }

\* a netmask made of leading one bits only
IsPrefixMask(m) ==
    /\ \A i \in 1..4 : m[i] \in {0, 128, 192, 224, 240, 248, 252, 254, 255}
    /\ \A i \in 1..3 : m[i] # 255 => m[i + 1] = 0

\* scenario S3: routes {0.0.0.0/0 via 192.0.2.1, 192.0.2.0/24 direct}
S3Iface == IpIface("net0", <<192, 0, 2, 2>>, <<255, 255, 255, 0>>)
S3Table ==
    ip_route_add(
        ip_route_add(<< >>, <<192, 0, 2, 0>>, <<255, 255, 255, 0>>, IP_ADDR_ANY, S3Iface),
        IP_ADDR_ANY, IP_ADDR_ANY, <<192, 0, 2, 1>>, S3Iface)

C8_S3 ==
    (routeRes.done /\ routeRes.table = S3Table) =>
        /\ routeRes.dst = <<192, 0, 2, 42>> =>
              (routeRes.pos # 0 /\ S3Table[routeRes.pos].netmask = <<255, 255, 255, 0>>)
        /\ routeRes.dst = <<8, 8, 8, 8>> =>
              (routeRes.pos # 0 /\ S3Table[routeRes.pos].network = IP_ADDR_ANY
                               /\ S3Table[routeRes.pos].nexthop = <<192, 0, 2, 1>>)

\* C8 as stated: ip_route_lookup leaves the table unchanged and returns the
\* matching route whose netmask has the most bits set, the most recently
\* added one among equals, and NULL only when no route matches; scenario S3.
C8_MostBitsSet ==
    routeRes.done =>
        LET rs == routeRes.table
            p == routeRes.pos
            M == RouteMatching(rs, routeRes.dst)
        IN  /\ routes = rs
            /\ (p = 0) <=> (M = {})
            /\ p # 0 =>
                  /\ p \in M
                  /\ \A j \in M :
                        /\ MaskBits(rs[j].netmask) <= MaskBits(rs[p].netmask)
                        /\ MaskBits(rs[j].netmask) = MaskBits(rs[p].netmask) => p <= j
            /\ C8_S3

\* C8 amended: ip_route_lookup leaves the table unchanged and returns the
\* matching route whose netmask is greatest as a host-order 32-bit number
\* (the one with the most bits set when the matching netmasks are prefix
\* masks), the most recently added one among equal netmasks, and NULL only
\* when no route matches; scenario S3 holds.
C8_GreatestNetmask ==
    routeRes.done =>
        LET rs == routeRes.table
            p == routeRes.pos
            M == RouteMatching(rs, routeRes.dst)
        IN  /\ routes = rs
            /\ (p = 0) <=> (M = {})
            /\ p # 0 =>
                  /\ p \in M
                  /\ \A j \in M :
                        /\ Le32(ntoh32(rs[j].netmask), ntoh32(rs[p].netmask))
                        /\ rs[j].netmask = rs[p].netmask => p <= j
                  /\ (\A j \in M : IsPrefixMask(rs[j].netmask)) =>
                        \A j \in M : MaskBits(rs[j].netmask) <= MaskBits(rs[p].netmask)
            /\ C8_S3

\* a lookup had to choose among three matching routes, two of them with the
\* same netmask and one with a different netmask
C8_Witness ==
    /\ routeRes.done
    /\ routeRes.pos # 0
    /\ \E j, k \in RouteMatching(routeRes.table, routeRes.dst) :
          /\ j # routeRes.pos
          /\ routeRes.table[j].netmask = routeRes.table[routeRes.pos].netmask
          /\ routeRes.table[k].netmask # routeRes.table[routeRes.pos].netmask

(***************************************************************************)
(* Claims about ARP and IP output                                          *)
(***************************************************************************)
\* the frames of the step just taken that carry an ARP REQUEST / an IP datagram
ArpRequestsSent ==
    { k \in 1..Len(txFrames) :
        txFrames[k].type = "ARP" /\ txFrames[k].data.op = ARP_OP_REQUEST }
IpFramesSent == { k \in 1..Len(txFrames) : txFrames[k].type = "IP" }

C7_FreeAfterThirtySeconds ==
    [][ NetTimerHandler =>
          \A i \in 1..ArpCacheSize :
             (caches[i].state = "RESOLVED" /\ now - caches[i].timestamp >= ARP_CACHE_TIMEOUT)
                => caches'[i].state = "FREE" ]_vars

\* C9 as stated: when ip_output had the resolver consulted (NEED_ARP device,
\* next hop not a broadcast address) and the resolver returned INCOMPLETE or
\* ERROR, no frame carrying the datagram was handed to the device and the
\* return value is not the success value len.
C9_NotDeliveredIsReported ==
    (ipRes.done /\ ipRes.arpCalled
        /\ ipRes.arpRet \in { ARP_RESOLVE_INCOMPLETE, ARP_RESOLVE_ERROR }) =>
        (IpFramesSent = {} /\ ipRes.ret # ipRes.len)

C4_RoundTrip ==
    (udpRes.done /\ udpRes.op = "recvfrom" /\ udpRes.ret >= 0
        /\ udpRes.size >= Len(udpRes.sentData)) =>
        /\ udpRes.foreign = udpRes.sentBy
        /\ udpRes.ret = Len(udpRes.sentData)
        /\ udpRes.data = udpRes.sentData


(***************************************************************************)
(* TCP: passive open, data transfer and the windows                        *)
(***************************************************************************)
\* the control block of a sleeping or just returned tcp_send call
TcpSending(i) ==
    \/ \E t \in TcpThreads : tcpThreads[t].op = "send" /\ tcpThreads[t].pcb = i
    \/ tcpRes.done /\ tcpRes.op = "send" /\ tcpRes.ret >= 0 /\ tcpRes.pcb = i

\* C1: on a block listening on 192.0.2.2:7, SYN(seq = 1000) leads to
\* SYN_RECEIVED with exactly one SYN+ACK sent, acknowledging 1001; the ACK of
\* that SYN+ACK leads to ESTABLISHED, sends nothing and wakes the opener,
\* and tcp_open_rfc793 returns only then, with the index of the block; the
\* five bytes at seq 1001 are answered with one ACK acknowledging 1006, and
\* the next tcp_receive with room for five bytes returns exactly these bytes
C1_PassiveOpenThenData ==
    /\ tcpScript.stage = 1 =>
        /\ tcpPcbs[1].state = "SYN_RECEIVED"
        /\ Len(tcpScript.out) = 1
        /\ tcpScript.out[1].flg = { "SYN", "ACK" }
        /\ tcpScript.out[1].ack = U32(1001)
        /\ tcpScript.out[1].seq = tcpPcbs[1].iss
    /\ tcpScript.stage >= 2 =>
        /\ tcpPcbs[1].state = "ESTABLISHED"
        /\ tcpScript.out[1].flg = { "SYN", "ACK" }
        /\ \A t \in TcpThreads :
              (tcpThreads[t].op = "open" /\ tcpThreads[t].pcb = 1) => tcpThreads[t].woken
    /\ tcpScript.stage = 2 => Len(tcpScript.out) = 1
    /\ tcpScript.stage >= 3 =>
        /\ Len(tcpScript.out) = 2
        /\ tcpScript.out[2].flg = { "ACK" }
        /\ tcpScript.out[2].ack = U32(1006)
        /\ tcpScript.out[2].len = 0
    /\ (tcpScript.stage >= 0 /\ tcpRes.done /\ tcpRes.op = "open" /\ tcpRes.pcb = 1) =>
        /\ tcpScript.stage >= 2
        /\ tcpRes.ret = 0
    /\ (tcpScript.stage = 4 /\ tcpRes.done /\ tcpRes.op = "receive" /\ tcpRes.pcb = 1
            /\ tcpRes.size >= 5) =>
        /\ tcpRes.ret = 5
        /\ tcpRes.data = << 0, 1, 2, 3, 4 >>

C1_Witness ==
    /\ tcpScript.stage = 4
    /\ tcpRes.done
    /\ tcpRes.op = "receive"
    /\ tcpRes.pcb = 1
    /\ tcpRes.size >= 5
    /\ tcpRes.ret = 5

\* C2: what a tcp_receive call returns is the part of the peer's byte
\* stream that follows the bytes returned before, with no gap, duplicate or
\* reordering
C2_StreamInOrder ==
    (tcpRes.done /\ tcpRes.op = "receive" /\ tcpRes.ret > 0) =>
        tcpRes.data = [ j \in 1..tcpRes.ret |-> tcpRes.first + j - 1 ]

\* C3: while a tcp_send call on an ESTABLISHED connection sleeps or returns,
\* snd.nxt - snd.una is at most snd.wnd
C3_SendWithinWindow ==
    \A i \in 1..TcpPcbSize :
        (TcpSending(i) /\ tcpPcbs[i].state = "ESTABLISHED") =>
            Le32(Sub32(tcpPcbs[i].snd_nxt, tcpPcbs[i].snd_una), U32(tcpPcbs[i].snd_wnd))

\* C10: in SYN_RECEIVED and ESTABLISHED with rcv.wnd > 0, a segment with
\* seg.len = 0 passes the acceptability test exactly if
\* rcv.nxt <= seg.seq < rcv.nxt + rcv.wnd
C10_AcceptableIffInWindow ==
    \A i \in 1..TcpPcbSize :
        (tcpPcbs[i].state \in { "SYN_RECEIVED", "ESTABLISHED" } /\ tcpPcbs[i].rcv_wnd > 0) =>
            \A seg \in { x \in TcpSegments(tcpPcbs[i]) : TcpSegLen(x) = 0 } :
                TcpAcceptable(tcpPcbs[i], seg) <=>
                    /\ Le32(tcpPcbs[i].rcv_nxt, seg.seq)
                    /\ Lt32(Sub32(seg.seq, tcpPcbs[i].rcv_nxt), U32(tcpPcbs[i].rcv_wnd))

\* the threads asleep in tcp_send or tcp_receive on block i
TcpAsleepOn(i) ==
    { t \in TcpThreads : /\ tcpThreads[t].op \in { "send", "receive" }
                         /\ tcpThreads[t].pcb = i
                         /\ ~tcpThreads[t].woken }

\* C11: tcp_close does not stay inside the release while threads are blocked
\* in tcp_send or tcp_receive on the block, and when it has returned 0
\* one RST has been sent, every thread blocked in tcp_send or tcp_receive on
\* the block has been woken, and the block is FREE with all fields cleared
\* if no thread was blocked on it
C11_CloseReleases ==
    /\ \A t \in TcpThreads :
          tcpThreads[t].op = "destroy" => TcpAsleepOn(tcpThreads[t].pcb) = { }
    /\ (tcpRes.done /\ tcpRes.op = "close" /\ tcpRes.ret = 0) =>
          /\ Len(tcpOut) = 1
          /\ tcpOut[1].flg = { "RST" }
          /\ TcpAsleepOn(tcpRes.pcb) = { }
          /\ (\A t \in TcpThreads : tcpThreads[t].pcb # tcpRes.pcb) =>
                tcpPcbs[tcpRes.pcb] = TcpPcbFree

\* thread t is about to resume tcp_open_rfc793 on a block whose context has
\* been interrupted
TcpOpenInterrupted(t) ==
    /\ tcpThreads[t].op = "open"
    /\ tcpThreads[t].woken
    /\ tcpPcbs[tcpThreads[t].pcb].interrupted

UdpAsleepOn(i) ==
    { t \in UdpThreads : /\ udpThreads[t].op = "recvfrom"
                         /\ udpThreads[t].pcb = i
                         /\ ~udpThreads[t].woken }

\* C13: udp_close does not stay inside the release, and when it has
\* returned every thread that was blocked in udp_recvfrom on the endpoint
\* has been woken, and the slot is CLOSING as long as such a thread has not
\* yet released it
C13_CloseWakesReceivers ==
    /\ \A t \in UdpThreads : udpThreads[t].op # "destroy"
    /\ (udpRes.done /\ udpRes.op = "close" /\ udpRes.ret = 0) =>
          /\ UdpAsleepOn(udpRes.id + 1) = { }
          /\ (\E t \in UdpThreads : udpThreads[t].op = "recvfrom"
                                    /\ udpThreads[t].pcb = udpRes.id + 1)
                => udpPcbs[udpRes.id + 1].state = "CLOSING"

\* C14: a thread that was blocked in tcp_open_rfc793, tcp_send or
\* tcp_receive on a block that was not FREE when the event was handled is
\* woken, and when it returns it returns -1 with EINTR, or from tcp_send the
\* number of bytes it had already sent if that is at least one
C14_InterruptedReturnsEintr ==
    [][\A t \in TcpThreads :
          tcpThreads[t].intr =>
             /\ tcpThreads[t].woken
             /\ tcpThreads'[t].op \in { "idle", tcpThreads[t].op }
             /\ tcpThreads'[t].op = "idle" =>
                   /\ tcpRes'.done
                   /\ \/ tcpRes'.ret = -1 /\ tcpRes'.eintr
                      \/ /\ tcpThreads[t].op = "send"
                         /\ tcpThreads[t].sent > 0
                         /\ tcpRes'.ret = tcpThreads[t].sent]_vars

(***************************************************************************)
(* Datagram input: validation, filtering, ICMP echo                        *)
(***************************************************************************)
\* C15: ip_input calls an upper-protocol handler only for a datagram of at
\* least 20 bytes with version 4, header length and total length within the
\* received length, a header checksum that folds to zero, MF clear and
\* fragment offset zero, whose destination is the unicast or broadcast
\* address of the receiving interface or 255.255.255.255; for any other
\* datagram no handler is called and nothing is transmitted
C15_OnlyValidLocalDelivered ==
    (rxRes.done /\ rxRes.op = "ip") =>
        LET b == rxRes.in
            valid == /\ Len(b) >= 20
                     /\ b[1] \div 16 = 4
                     /\ (b[1] % 16) * 4 <= Len(b)
                     /\ b[3] * 256 + b[4] <= Len(b)
                     /\ Fold16(Sum16(SubSeq(b, 1, (b[1] % 16) * 4), 1)) = U16Mod - 1
                     /\ (b[7] \div 32) % 2 = 0
                     /\ (b[7] % 32) * 256 + b[8] = 0
            local == \E f \in net_device_get_iface(ifaces, rxRes.dev) :
                        SubSeq(b, 17, 20) \in { f.unicast, f.broadcast, IP_ADDR_BROADCAST }
        IN  /\ rxRes.delivered # << >> => (valid /\ local)
            /\ ~(valid /\ local) =>
                  /\ rxRes.delivered = << >>
                  /\ rxRes.out = << >>
                  /\ txFrames = << >>

\* an ICMP echo for the host's address arrives on net0 with MF set and is
\* dropped
C15_Witness ==
    /\ rxRes.done
    /\ rxRes.op = "ip"
    /\ rxRes.dev = "net0"
    /\ rxRes.in = IpDatagram(69, 32, 8192, IP_PROTOCOL_ICMP, <<192, 0, 2, 1>>, <<192, 0, 2, 2>>, 0,
                             IcmpMessage(ICMP_TYPE_ECHO, 0, << 18, 52, 0, 1 >>, RxEchoData))
    /\ rxRes.delivered = << >>
    /\ txFrames = << >>

\* C17: for a valid ICMP ECHO (at least 8 bytes, checksum correct) given to
\* icmp_input on an interface, exactly one ECHOREPLY is passed on for output,
\* with the identifier, sequence number and payload of the ECHO, from the
\* interface's unicast address to the source of the ECHO; for a valid
\* message of another type nothing is output; an ECHO from the loopback
\* address to itself puts exactly one datagram on the loopback device when
\* the output succeeds, and the ECHOREPLY it carries is answered by nothing
C17_EchoReply ==
    (rxRes.done /\ rxRes.op = "ip" /\ rxRes.delivered # << >>
        /\ rxRes.delivered[1].protocol = IP_PROTOCOL_ICMP /\ ~rxRes.delivered[1].wrapped) =>
        LET call == rxRes.delivered[1]
            d == call.data
            valid == Len(d) >= 8 /\ Fold16(Sum16(d, 1)) = U16Mod - 1
        IN  /\ (valid /\ d[1] = 8) =>
                  /\ Len(rxRes.out) = 1
                  /\ rxRes.out[1].msg[1] = 0
                  /\ SubSeq(rxRes.out[1].msg, 5, 8) = SubSeq(d, 5, 8)
                  /\ SubSeq(rxRes.out[1].msg, 9, Len(rxRes.out[1].msg)) = SubSeq(d, 9, Len(d))
                  /\ Fold16(Sum16(rxRes.out[1].msg, 1)) = U16Mod - 1
                  /\ \E f \in net_device_get_iface(ifaces, rxRes.dev) :
                        rxRes.out[1].src = f.unicast
                  /\ rxRes.out[1].dst = call.src
                  /\ Len(txFrames) <= 1
            /\ (valid /\ d[1] # 8) => (rxRes.out = << >> /\ txFrames = << >>)
            /\ (valid /\ d[1] = 8 /\ rxRes.dev = "lo" /\ call.src = <<127, 0, 0, 1>>
                  /\ call.dst = <<127, 0, 0, 1>> /\ rxRes.ret # -1) =>
                  /\ Len(txFrames) = 1
                  /\ txFrames[1].dev = "lo"
                  /\ txFrames[1].type = "IP"
                  /\ txFrames[1].data.protocol = IP_PROTOCOL_ICMP
                  /\ txFrames[1].data.src = <<127, 0, 0, 1>>
                  /\ txFrames[1].data.dst = <<127, 0, 0, 1>>

\* the ECHO with id 0x1234, seq 1 and payload "abcd" from the loopback
\* address to itself has been answered on the loopback device
C17_Witness ==
    /\ rxRes.done
    /\ rxRes.dev = "lo"
    /\ rxRes.delivered # << >>
    /\ rxRes.delivered[1].data = IcmpMessage(ICMP_TYPE_ECHO, 0, << 18, 52, 0, 1 >>, RxEchoData)
    /\ rxRes.delivered[1].src = <<127, 0, 0, 1>>
    /\ Len(rxRes.out) = 1
    /\ rxRes.out[1].msg = IcmpMessage(ICMP_TYPE_ECHOREPLY, 0, << 18, 52, 0, 1 >>, RxEchoData)
    /\ rxRes.ret # -1
    /\ Len(txFrames) = 1

(***************************************************************************)
(* Ethernet input                                                          *)
(***************************************************************************)
\* C16: a frame whose destination address is neither the address of the
\* receiving device nor the broadcast address is not passed to
\* net_input_handler, and no entry that a protocol handler is called with
\* comes from such a frame
C16_ForeignFrameDropped ==
    /\ (rxRes.op = "ether"
          /\ Len(rxRes.in) >= 6
          /\ SubSeq(rxRes.in, 1, 6) # NetDevice(rxRes.dev).addr
          /\ SubSeq(rxRes.in, 1, 6) # <<255, 255, 255, 255, 255, 255>>) =>
             rxRes.delivered = << >>
    /\ \A t \in NetProtocolTypes :
          \A k \in 1..Len(netHandled[t]) :
             netHandled[t][k].dst \in { NetDevice(netHandled[t][k].dev).addr,
                                        <<255, 255, 255, 255, 255, 255>> }

\* net0 has read a frame addressed to net1 and more frames after it, and a
\* protocol handler has run
C16_Witness ==
    /\ rxRes.op = "ether"
    /\ rxRes.dev = "net0"
    /\ SubSeq(rxRes.in, 1, 6) = NetDevice("net1").addr
    /\ rxRes.delivered = << >>
    /\ \E t \in NetProtocolTypes : netHandled[t] # << >>

\* C18: when arp_input is called for a well-formed ARP REQUEST received on an
\* open device whose interface has the unicast address the request asks for
\* (tpa), and the cache holds no entry for the sender's protocol address,
\* exactly one frame is handed to the device: an ARP REPLY with sha = the
\* device's address, spa = the interface's unicast, tha = the sender's sha
\* and tpa = the sender's spa, addressed to the sender's hardware address;
\* and the cache afterwards holds a RESOLVED entry for the sender's spa.
C18_RequestAnswered ==
    [][ \A dev \in ArpInputDevs, in \in ArpInputs, txOk \in BOOLEAN :
          ( /\ dev \in devUp
            /\ in[2] >= ArpMsgSize
            /\ in[1] \in ArpValidMsgs
            /\ in[1].op = ARP_OP_REQUEST
            /\ \E f \in net_device_get_iface(ifaces, dev) : f.unicast = in[1].tpa
            /\ \A i \in 1..ArpCacheSize :
                  caches[i].state = "FREE" \/ caches[i].pa # in[1].spa
            /\ ArpInputStep(dev, in, txOk) )
          => /\ txFrames' =
                  << [ dev |-> dev, type |-> "ARP", dst |-> in[1].sha,
                       data |-> [ hrd |-> ARP_HDR_ETHER, pro |-> ARP_PRO_IP,
                                  hln |-> ETHER_ADDR_LEN, pln |-> IP_ADDR_LEN,
                                  op |-> ARP_OP_REPLY,
                                  sha |-> NetDevice(dev).addr, spa |-> in[1].tpa,
                                  tha |-> in[1].sha, tpa |-> in[1].spa ],
                       len |-> ArpMsgSize ] >>
             /\ \E i \in 1..ArpCacheSize :
                  caches'[i].state = "RESOLVED" /\ caches'[i].pa = in[1].spa ]_vars

\* a reply to 192.0.2.1 is on its way and the cache, which held no entry
\* for that address one step earlier, has a RESOLVED entry for it
C18_Witness ==
    /\ Len(txFrames) = 1
    /\ txFrames[1].type = "ARP"
    /\ txFrames[1].data.op = ARP_OP_REPLY
    /\ txFrames[1].data.tpa = <<192, 0, 2, 1>>
    /\ txFrames[1].dst = PeerMac(<<192, 0, 2, 1>>)
    /\ \E i \in 1..ArpCacheSize :
          /\ caches[i].state = "RESOLVED" /\ caches[i].pa = <<192, 0, 2, 1>>
          /\ caches[i].timestamp = now

\* an OPEN endpoint holds port q on address a: its port is q and its
\* address is a or the wildcard
UdpPortUsedOn(pcbs, a, q) ==
    \E j \in 1..UdpPcbSize :
        /\ pcbs[j].state = "OPEN"
        /\ pcbs[j].local.port = hton16(q)
        /\ pcbs[j].local.addr \in { a, IP_ADDR_ANY }

\* the call of udp_sendto that has just returned, on endpoint i
UdpSendtoReturned(i) ==
    /\ ~udpRes.done /\ udpRes'.done /\ udpRes'.op = "sendto"
    /\ udpRes'.id = i - 1
    /\ udpPcbs[i].state = "OPEN"

UdpPairHeldBy(pcbs, j, local) ==
    /\ pcbs[j].state = "OPEN"
    /\ pcbs[j].local.port = local.port
    /\ (pcbs[j].local.addr = local.addr
          \/ pcbs[j].local.addr = IP_ADDR_ANY \/ local.addr = IP_ADDR_ANY)

\* C20: a udp_bind(id, local) on an OPEN endpoint returns -1 and leaves the
\* local endpoint of the endpoint unchanged when another OPEN endpoint holds
\* the pair of local; otherwise it returns 0 and the local endpoint of the
\* endpoint equals local.
C20_BindConflict ==
    [][ \A i \in 1..UdpPcbSize :
          ( /\ ~udpRes.done /\ udpRes'.done /\ udpRes'.op = "bind"
            /\ udpRes'.id = i - 1
            /\ udpPcbs[i].state = "OPEN" )
          => IF \E j \in 1..UdpPcbSize : j # i /\ UdpPairHeldBy(udpPcbs, j, udpRes'.sentBy)
             THEN udpRes'.ret = -1 /\ udpPcbs'[i].local = udpPcbs[i].local
             ELSE udpRes'.ret = 0 /\ udpPcbs'[i].local = udpRes'.sentBy ]_vars

\* the identifier names no endpoint: it is out of range or its slot is FREE
UdpBadId(id) == id < 0 \/ id >= UdpPcbSize \/ udpPcbs[id + 1].state = "FREE"
TcpBadId(id) == id < 0 \/ id >= TcpPcbSize \/ tcpPcbs[id + 1].state = "FREE"

\* the step changes no control block of either table and passes nothing to
\* the IP layer or to a device
NoPcbChangeNoOutput ==
    /\ udpPcbs' = udpPcbs /\ tcpPcbs' = tcpPcbs
    /\ tcpOut' = tcpOut /\ loQueue' = loQueue /\ txFrames' = txFrames
    /\ ipId' = ipId /\ caches' = caches

\* C21: a call of udp_bind, udp_sendto, udp_recvfrom, udp_close, tcp_send,
\* tcp_receive or tcp_close with an identifier that is out of range or names
\* a FREE slot (one never allocated or one released and not allocated again)
\* returns -1, changes no control block and transmits nothing: a step that
\* is such a call is one that returns -1 and changes and sends nothing.
C21_BadIdFails ==
    [][ /\ (udpRes' # udpRes \/ udpPcbs' # udpPcbs \/ udpThreads' # udpThreads)
           => \/ udpRes'.done /\ udpRes'.ret = -1 /\ NoPcbChangeNoOutput
              \/ \A id \in UdpCallIds :
                    UdpBadId(id) =>
                       /\ ~UdpCloseCall(id)
                       /\ \A local \in UdpLocals : ~UdpBindCall(id, local)
                       /\ \A data \in UdpPayloads, foreign \in UdpForeigns,
                             txOk \in BOOLEAN : ~UdpSendtoCall(id, data, foreign, txOk)
                       /\ \A t \in UdpThreads, size \in UdpBufSizes :
                             ~UdpRecvfromCall(t, id, size)
        /\ (tcpRes' # tcpRes \/ tcpPcbs' # tcpPcbs \/ tcpThreads' # tcpThreads
               \/ tcpOut' # tcpOut)
           => \/ tcpRes'.done /\ tcpRes'.ret = -1 /\ NoPcbChangeNoOutput
              \/ \A id \in TcpCallIds, t \in TcpThreads :
                    TcpBadId(id) =>
                       /\ ~TcpCloseCall(t, id)
                       /\ \A ipOk \in BOOLEAN : ~TcpSendCall(t, id, 5, ipOk)
                       /\ \A size \in { 2, 2048 } : ~TcpReceiveCall(t, id, size) ]_vars

\* a udp_sendto on the released first slot has just returned -1 while the
\* second slot is OPEN, and the only TCP slot has been allocated
C21_Witness ==
    /\ udpRes.done /\ udpRes.op = "sendto" /\ udpRes.id = 0 /\ udpRes.ret = -1
    /\ udpPcbs[1].state = "FREE"
    /\ udpPcbs[2].state = "OPEN"
    /\ tcpPcbs[1].state # "FREE"

\* C22: in any sequence of net_device_open, net_device_close and
\* net_device_output calls the driver's transmit is called only for a
\* device that is UP and with a length of at most the device's MTU, and is
\* called then; otherwise net_device_output returns -1 without calling
\* it; net_device_open of a device that is UP and net_device_close of one
\* that is not return -1 and leave the flag as it is.
C22_DeviceCalls ==
    [][ /\ \A i \in 1..Len(txFrames') :
              /\ txFrames'[i].dev \in devUp
              /\ txFrames'[i].len <= NetDevice(txFrames'[i].dev).mtu
        /\ \A dev \in Devices, len \in DevLens, txOk \in BOOLEAN :
              NetDeviceOutput(dev, len, txOk)
              => IF dev \in devUp /\ len <= NetDevice(dev).mtu
                 THEN /\ Len(txFrames') = 1
                      /\ txFrames'[1].dev = dev /\ txFrames'[1].len = len
                      /\ rxRes'.ret = IF txOk THEN 0 ELSE -1
                 ELSE rxRes'.ret = -1 /\ txFrames' = << >>
        /\ \A dev \in Devices, drvOk \in BOOLEAN :
              /\ (dev \in devUp /\ NetDeviceOpen(dev, drvOk))
                    => rxRes'.ret = -1 /\ devUp' = devUp
              /\ (dev \notin devUp /\ NetDeviceClose(dev, drvOk))
                    => rxRes'.ret = -1 /\ devUp' = devUp ]_vars

\* net0 is the only device that is UP and a net_device_open of net0 has
\* just returned -1
C22_Witness ==
    /\ rxRes.done /\ rxRes.op = "open" /\ rxRes.dev = "net0" /\ rxRes.ret = -1
    /\ devUp = { "net0" }

\* C23: in net_shutdown net_device_close is called for no device while the
\* interrupt thread is still in its dispatch loop, and when net_shutdown
\* has ended it has been called for every device that was UP.
C23_IntrStopsBeforeClose ==
    [][ /\ (netShut.pc = "close" /\ netShut'.closed # netShut.closed) => ~intrUp
        /\ netShut'.pc = "done" => netShut'.wasUp \subseteq netShut'.closed ]_vars

\* C24: when an acceptable segment with ACK arrives for a block in
\* SYN_RECEIVED, the block becomes ESTABLISHED and its sleepers are woken
\* if snd.una < seg.ack <= snd.nxt, and otherwise a single RST with
\* seq = seg.ack is sent and the block stays in SYN_RECEIVED.
C24_SynReceivedAck ==
    [][ \A i \in 1..TcpPcbSize :
          \A seg \in TcpSegments(tcpPcbs[i]) :
            ( /\ tcpPcbs[i].state = "SYN_RECEIVED"
              /\ tcp_pcb_select(tcpPcbs, TcpLocal, TcpPeer) = i
              /\ "ACK" \in seg.flg
              /\ TcpAcceptable(tcpPcbs[i], seg)
              /\ TcpInputCall(seg, TRUE, U32(0)) )
            => IF Lt32(tcpPcbs[i].snd_una, seg.ack) /\ Le32(seg.ack, tcpPcbs[i].snd_nxt)
               THEN /\ tcpPcbs'[i].state = "ESTABLISHED"
                    /\ \A t \in SchedWaiters(tcpThreads, i) : tcpThreads'[t].woken
               ELSE /\ tcpPcbs'[i].state = "SYN_RECEIVED"
                    /\ Len(tcpOut') = 1
                    /\ tcpOut'[1].flg = { "RST" }
                    /\ tcpOut'[1].seq = seg.ack ]_vars

\* C25: when an acceptable segment with ACK, an acknowledgment number of at
\* most snd.nxt and n > 0 bytes of data arrives for a block in ESTABLISHED,
\* the n bytes are stored in the receive buffer at offset 65535 - rcv.wnd
\* behind the bytes already there, rcv.nxt grows by seg.len, rcv.wnd
\* shrinks by n, a single ACK whose acknowledgment number is the new rcv.nxt
\* is sent, and the sleepers of the block are woken.
C25_TextCopied ==
    [][ \A i \in 1..TcpPcbSize :
          \A seg \in TcpSegments(tcpPcbs[i]) :
            ( /\ tcpPcbs[i].state = "ESTABLISHED"
              /\ tcp_pcb_select(tcpPcbs, TcpLocal, TcpPeer) = i
              /\ "ACK" \in seg.flg
              /\ Len(seg.data) > 0
              /\ Le32(seg.ack, tcpPcbs[i].snd_nxt)
              /\ TcpAcceptable(tcpPcbs[i], seg)
              /\ TcpInputCall(seg, TRUE, U32(0)) )
            => LET off == TcpBufSize - tcpPcbs[i].rcv_wnd
                   n == Len(seg.data)
               IN  /\ Len(tcpPcbs'[i].buf) = off + n
                   /\ \A j \in 1..n : tcpPcbs'[i].buf[off + j] = seg.data[j]
                   /\ \A j \in 1..Min(off, Len(tcpPcbs[i].buf)) :
                         tcpPcbs'[i].buf[j] = tcpPcbs[i].buf[j]
                   /\ tcpPcbs'[i].rcv_nxt = Add32(tcpPcbs[i].rcv_nxt, U32(TcpSegLen(seg)))
                   /\ tcpPcbs'[i].rcv_wnd = tcpPcbs[i].rcv_wnd - n
                   /\ Len(tcpOut') = 1
                   /\ tcpOut'[1].flg = { "ACK" }
                   /\ tcpOut'[1].ack = tcpPcbs'[i].rcv_nxt
                   /\ \A t \in SchedWaiters(tcpThreads, i) : tcpThreads'[t].woken ]_vars

\* C26: for a block in SYN_RECEIVED or ESTABLISHED, 65535 - rcv.wnd is the
\* number of bytes of the peer's stream received and not yet delivered and
\* lies in 0..65535, and a payload is copied into the receive buffer only
\* when its length is at most rcv.wnd, so that the copy ends within the
\* 65535 bytes of the buffer.
C26_WindowHoldsPayload ==
    [][ \A i \in 1..TcpPcbSize :
          /\ tcpPcbs'[i].state \in { "SYN_RECEIVED", "ESTABLISHED" }
             => /\ TcpBufSize - tcpPcbs'[i].rcv_wnd
                      = TcpStreamOff(tcpPcbs'[i]) - tcpPcbs'[i].delivered
                /\ TcpBufSize - tcpPcbs'[i].rcv_wnd \in 0..TcpBufSize
          /\ ( /\ tcpPcbs[i].state = "ESTABLISHED"
               /\ tcpPcbs'[i].buf # tcpPcbs[i].buf
               /\ tcpPcbs'[i].rcv_nxt # tcpPcbs[i].rcv_nxt )
             => \A seg \in TcpBulkSegments(tcpPcbs[i]) :
                   TcpInputCall(seg, TRUE, U32(300))
                   => /\ Len(seg.data) <= tcpPcbs[i].rcv_wnd
                      /\ (TcpBufSize - tcpPcbs[i].rcv_wnd) + Len(seg.data) <= TcpBufSize ]_vars

\* C27: a segment that arrives for a block in LISTEN: with RST it changes
\* nothing and nothing is sent; otherwise with ACK a single RST with
\* seq = seg.ack is sent and the block stays as it is, in LISTEN; otherwise
\* with SYN the block takes the local and foreign endpoints of the segment,
\* irs = seg.seq, rcv.nxt = seg.seq + 1, rcv.wnd = 65535, snd.una = iss and
\* snd.nxt = iss + 1, a single SYN+ACK with seq = iss and ack = seg.seq + 1
\* is sent and the block is in SYN_RECEIVED; any other segment changes
\* nothing and nothing is sent.
C27_ListenSegment ==
    [][ \A i \in 1..TcpPcbSize :
          \A seg \in TcpSegments(tcpPcbs[i]) :
            \A iss \in TcpIssOf(seg) :
              ( /\ tcpPcbs[i].state = "LISTEN"
                /\ tcp_pcb_select(tcpPcbs, TcpLocal, TcpPeer) = i
                /\ TcpInputCall(seg, TRUE, iss) )
              => IF "RST" \in seg.flg
                 THEN tcpPcbs' = tcpPcbs /\ tcpOut' = << >>
                 ELSE IF "ACK" \in seg.flg
                 THEN /\ tcpPcbs' = tcpPcbs
                      /\ Len(tcpOut') = 1
                      /\ tcpOut'[1].flg = { "RST" }
                      /\ tcpOut'[1].seq = seg.ack
                 ELSE IF "SYN" \in seg.flg
                 THEN /\ tcpPcbs'[i].state = "SYN_RECEIVED"
                      /\ tcpPcbs'[i].local = TcpLocal
                      /\ tcpPcbs'[i].foreign = TcpPeer
                      /\ tcpPcbs'[i].irs = seg.seq
                      /\ tcpPcbs'[i].rcv_nxt = Add32(seg.seq, U32(1))
                      /\ tcpPcbs'[i].rcv_wnd = TcpBufSize
                      /\ tcpPcbs'[i].snd_una = tcpPcbs'[i].iss
                      /\ tcpPcbs'[i].snd_nxt = Add32(tcpPcbs'[i].iss, U32(1))
                      /\ Len(tcpOut') = 1
                      /\ tcpOut'[1].flg = { "SYN", "ACK" }
                      /\ tcpOut'[1].seq = tcpPcbs'[i].iss
                      /\ tcpOut'[1].ack = Add32(seg.seq, U32(1))
                 ELSE tcpPcbs' = tcpPcbs /\ tcpOut' = << >> ]_vars

\* a listening block has just answered a SYN with the highest sequence
\* number offered: it is in SYN_RECEIVED with rcv.nxt = irs + 1 and the
\* SYN+ACK is on its way
C27_Witness ==
    /\ tcpPcbs[1].state = "SYN_RECEIVED"
    /\ tcpPcbs[1].irs = <<65535, 65519>>
    /\ tcpPcbs[1].rcv_nxt = <<65535, 65520>>
    /\ Len(tcpOut) = 1
    /\ tcpOut[1].flg = { "SYN", "ACK" }
    /\ tcpOut[1].seq = tcpPcbs[1].iss

\* the send variables of a block
TcpSndVars(pcb) == << pcb.snd_una, pcb.snd_nxt, pcb.snd_wnd, pcb.snd_wl1, pcb.snd_wl2 >>

\* C28: snd.una of a block that is and stays in ESTABLISHED changes only
\* when a segment with snd.una < seg.ack <= snd.nxt arrives; an acceptable
\* segment with ACK arriving in ESTABLISHED: with snd.una < seg.ack <=
\* snd.nxt it sets snd.una = seg.ack and sets snd.wnd, snd.wl1 and snd.wl2
\* to seg.wnd, seg.seq and seg.ack exactly when snd.wl1 < seg.seq or
\* (snd.wl1 = seg.seq and snd.wl2 <= seg.ack); with seg.ack < snd.una it
\* changes no send variable; with seg.ack > snd.nxt it changes no field of
\* the block, stores none of its data, and a single ACK is sent.
C28_AckField ==
    [][ \A i \in 1..TcpPcbSize :
          ( /\ tcpPcbs[i].state = "ESTABLISHED"
            /\ (tcpPcbs' # tcpPcbs \/ tcpOut' # tcpOut) )
          => /\ ( /\ tcpPcbs'[i].state = "ESTABLISHED"
                  /\ tcpPcbs'[i].snd_una # tcpPcbs[i].snd_una )
                => \E seg \in TcpSegments(tcpPcbs[i]) :
                      /\ Lt32(tcpPcbs[i].snd_una, seg.ack)
                      /\ Le32(seg.ack, tcpPcbs[i].snd_nxt)
                      /\ tcpPcbs'[i].snd_una = seg.ack
                      /\ TcpInputCall(seg, TRUE, U32(0))
             /\ ( /\ TcpQuiet
                  /\ tcpRes' = tcpRes
                  /\ tcp_pcb_select(tcpPcbs, TcpLocal, TcpPeer) = i )
                => \A seg \in TcpSegments(tcpPcbs[i]) :
                     ( /\ "ACK" \in seg.flg
                       /\ TcpAcceptable(tcpPcbs[i], seg)
                       /\ TcpInputCall(seg, TRUE, U32(0)) )
                     => /\ ( /\ Lt32(tcpPcbs[i].snd_una, seg.ack)
                             /\ Le32(seg.ack, tcpPcbs[i].snd_nxt) )
                           => /\ tcpPcbs'[i].snd_una = seg.ack
                              /\ tcpPcbs'[i].snd_nxt = tcpPcbs[i].snd_nxt
                              /\ IF \/ Lt32(tcpPcbs[i].snd_wl1, seg.seq)
                                    \/ /\ tcpPcbs[i].snd_wl1 = seg.seq
                                       /\ Le32(tcpPcbs[i].snd_wl2, seg.ack)
                                 THEN /\ tcpPcbs'[i].snd_wnd = seg.wnd
                                      /\ tcpPcbs'[i].snd_wl1 = seg.seq
                                      /\ tcpPcbs'[i].snd_wl2 = seg.ack
                                 ELSE /\ tcpPcbs'[i].snd_wnd = tcpPcbs[i].snd_wnd
                                      /\ tcpPcbs'[i].snd_wl1 = tcpPcbs[i].snd_wl1
                                      /\ tcpPcbs'[i].snd_wl2 = tcpPcbs[i].snd_wl2
                        /\ Lt32(seg.ack, tcpPcbs[i].snd_una)
                           => TcpSndVars(tcpPcbs'[i]) = TcpSndVars(tcpPcbs[i])
                        /\ Lt32(tcpPcbs[i].snd_nxt, seg.ack)
                           => /\ tcpPcbs' = tcpPcbs
                              /\ Len(tcpOut') = 1
                              /\ tcpOut'[1].flg = { "ACK" }
                              /\ tcpOut'[1].seq = tcpPcbs[i].snd_nxt
                              /\ tcpOut'[1].ack = tcpPcbs[i].rcv_nxt ]_vars

\* snd.una of a block in ESTABLISHED has gone past the acknowledgment
\* number of the last window update: an ACK has advanced it and left
\* snd.wnd, snd.wl1 and snd.wl2 as they were
C28_Witness ==
    /\ tcpPcbs[1].state = "ESTABLISHED"
    /\ tcpPcbs[1].snd_wl2 # U32(0)
    /\ Lt32(tcpPcbs[1].snd_wl2, tcpPcbs[1].snd_una)
    /\ Lt32(tcpPcbs[1].snd_una, tcpPcbs[1].snd_nxt)

\* C29: no two entries of the ARP cache that are not FREE hold the same
\* protocol address, whatever the order in which the critical sections of
\* arp_input, of arp_resolve and of the timer handler are taken.
C29_OneEntryPerAddress ==
    \A i, j \in 1..ArpCacheSize :
        ( /\ i # j
          /\ caches[i].state # "FREE"
          /\ caches[j].state # "FREE" )
        => caches[i].pa # caches[j].pa

\* C30: no two OPEN endpoints have the same local port other than 0
\* together with local addresses that are equal or of which one is
\* 0.0.0.0, so that no datagram matches two OPEN endpoints.
C30_EndpointsDisjoint ==
    \A i, j \in 1..UdpPcbSize :
        ( /\ i # j
          /\ udpPcbs[i].state = "OPEN"
          /\ udpPcbs[j].state = "OPEN"
          /\ udpPcbs[i].local.port # << 0, 0 >>
          /\ udpPcbs[i].local.port = udpPcbs[j].local.port )
        => /\ udpPcbs[i].local.addr # udpPcbs[j].local.addr
           /\ udpPcbs[i].local.addr # IP_ADDR_ANY
           /\ udpPcbs[j].local.addr # IP_ADDR_ANY

C32_ResolvedAddress ==
    ( /\ ipRes.done
      /\ ipRes.arpCalled
      /\ ipRes.arpRet = ARP_RESOLVE_FOUND ) =>
        \A k \in 1..Len(txFrames) :
            txFrames[k].type = "IP" => txFrames[k].dst = PeerMac(ipRes.nexthop)

\* C33: a segment that fails the acceptability test on a block in
\* SYN_RECEIVED or ESTABLISHED changes no field of any block, buffered
\* data included; if it carries RST nothing is sent, otherwise a single ACK
\* with seq = snd.nxt and ack = rcv.nxt is sent (stated of what
\* tcp_segment_arrives does with each segment the peer may send next).
C33_UnacceptableSegment ==
    \A i \in 1..TcpPcbSize :
        ( /\ tcpPcbs[i].state \in { "SYN_RECEIVED", "ESTABLISHED" }
          /\ TcpQuiet
          /\ tcp_pcb_select(tcpPcbs, TcpLocal, TcpPeer) = i )
        => \A seg \in TcpSegments(tcpPcbs[i]) :
             ~TcpAcceptable(tcpPcbs[i], seg)
             => \E r \in { tcp_segment_arrives(tcpPcbs, seg, TcpLocal, TcpPeer, U32(0)) } :
                   /\ r.pcbs = tcpPcbs
                   /\ IF "RST" \in seg.flg
                      THEN r.out = << >>
                      ELSE /\ Len(r.out) = 1
                           /\ r.out[1].flg = { "ACK" }
                           /\ r.out[1].len = 0
                           /\ r.out[1].seq = tcpPcbs[i].snd_nxt
                           /\ r.out[1].ack = tcpPcbs[i].rcv_nxt

\* a block in SYN_RECEIVED has just answered a segment with an ACK, which
\* in that state only an unacceptable segment brings about
C33_Witness ==
    /\ tcpPcbs[1].state = "SYN_RECEIVED"
    /\ Len(tcpOut) = 1
    /\ tcpOut[1].flg = { "ACK" }
    /\ tcpOut[1].seq = tcpPcbs[1].snd_nxt
    /\ tcpOut[1].ack = tcpPcbs[1].rcv_nxt

\* C34: a segment that matches no block, or a block in CLOSED, changes no
\* block; with RST nothing is sent; otherwise without ACK exactly one
\* segment with seq = 0, ack = seg.seq + seg.len and flags RST|ACK is sent;
\* otherwise exactly one segment with seq = seg.ack and flag RST is sent
\* (stated of what tcp_segment_arrives does with each segment the peer may
\* send next).
C34_NoConnection ==
    \A i \in 1..TcpPcbSize :
        ( /\ TcpQuiet
          /\ \/ tcp_pcb_select(tcpPcbs, TcpLocal, TcpPeer) = 0
             \/ tcpPcbs[tcp_pcb_select(tcpPcbs, TcpLocal, TcpPeer)].state = "CLOSED" )
        => \A seg \in TcpSegments(tcpPcbs[i]) :
             \E r \in { tcp_segment_arrives(tcpPcbs, seg, TcpLocal, TcpPeer, U32(0)) } :
                /\ r.pcbs = tcpPcbs
                /\ IF "RST" \in seg.flg
                   THEN r.out = << >>
                   ELSE IF "ACK" \notin seg.flg
                   THEN /\ Len(r.out) = 1
                        /\ r.out[1].seq = U32(0)
                        /\ r.out[1].ack =
                              Add32(seg.seq,
                                    U32(Len(seg.data)
                                        + (IF "SYN" \in seg.flg THEN 1 ELSE 0)
                                        + (IF "FIN" \in seg.flg THEN 1 ELSE 0)))
                        /\ r.out[1].flg = { "RST", "ACK" }
                   ELSE /\ Len(r.out) = 1
                        /\ r.out[1].seq = seg.ack
                        /\ r.out[1].flg = { "RST" }

\* no block is in use and a SYN with seq = 1000 has just been answered
\* with RST|ACK, seq = 0 and ack = 1001
C34_Witness ==
    /\ \A i \in 1..TcpPcbSize : tcpPcbs[i].state = "FREE"
    /\ Len(tcpOut) = 1
    /\ tcpOut[1].flg = { "RST", "ACK" }
    /\ tcpOut[1].seq = U32(0)
    /\ tcpOut[1].ack = U32(1001)

\* what a call of tcp_receive by thread t with a buffer of the given size
\* has to do on block p (number i): with bytes buffered it returns
\* n = min(size, buffered) and the n oldest bytes, keeps the others in
\* their order at the front of the buffer and raises rcv.wnd by n; with
\* nothing buffered it sleeps, or if mayFail it returns -1 with EINTR
TcpReceiveDone(t, p, i, size, mayFail) ==
    LET buffered == TcpBufSize - p.rcv_wnd
        n == Min(size, buffered)
    IN  IF buffered = 0 /\ mayFail
        THEN /\ tcpRes'.done /\ tcpRes'.ret = -1 /\ tcpRes'.eintr
             /\ tcpThreads'[t].op = "idle"
             /\ tcpPcbs'[i].buf = p.buf /\ tcpPcbs'[i].rcv_wnd = p.rcv_wnd
        ELSE IF buffered = 0
        THEN /\ ~tcpRes'.done
             /\ tcpThreads'[t].op = "receive" /\ ~tcpThreads'[t].woken
             /\ tcpPcbs'[i].buf = p.buf /\ tcpPcbs'[i].rcv_wnd = p.rcv_wnd
        ELSE /\ tcpRes'.done /\ tcpRes'.op = "receive" /\ tcpRes'.ret = n
             /\ tcpRes'.data = SubSeq(p.buf, 1, n)
             /\ tcpThreads'[t].op = "idle"
             /\ tcpPcbs'[i].buf = SubSeq(p.buf, n + 1, Len(p.buf))
             /\ Len(p.buf) = buffered
             /\ tcpPcbs'[i].rcv_wnd = p.rcv_wnd + n

\* C35 as stated: tcp_receive on an ESTABLISHED block sleeps while no bytes
\* are buffered, and with bytes buffered it returns n = min(size,
\* buffered), hands over the n oldest bytes, keeps the other bytes in their
\* order at the front of the buffer and raises rcv.wnd by exactly n.
C35_ReceiveAsStated ==
    [][ \A t \in TcpAppThreads :
          /\ \A id \in TcpCallIds, size \in TcpReceiveSizes :
                ( /\ tcp_pcb_get(tcpPcbs, id) # 0
                  /\ tcpPcbs[id + 1].state = "ESTABLISHED"
                  /\ TcpReceiveCall(t, id, size) )
                => TcpReceiveDone(t, tcpPcbs[id + 1], id + 1, size, FALSE)
          /\ ( /\ tcpThreads[t].op = "receive"
               /\ tcpPcbs[tcpThreads[t].pcb].state = "ESTABLISHED"
               /\ TcpReceiveWoken(t) )
             => TcpReceiveDone(t, tcpPcbs[tcpThreads[t].pcb], tcpThreads[t].pcb,
                               tcpThreads[t].size, FALSE) ]_vars

\* C35 (amended): tcp_receive on an ESTABLISHED block whose context is not
\* interrupted sleeps while no bytes are buffered, and with bytes buffered
\* it returns n = min(size, buffered), hands over the n oldest bytes, keeps
\* the other bytes in their order at the front of the buffer and raises
\* rcv.wnd by exactly n; when the context is interrupted a call that finds
\* no bytes buffered returns -1 with EINTR at once, and a call that slept
\* returns -1 with EINTR whatever is buffered by then, the buffer and
\* rcv.wnd staying as they are.
C35_ReceiveUnlessInterrupted ==
    [][ \A t \in TcpAppThreads :
          /\ \A id \in TcpCallIds, size \in TcpReceiveSizes :
                ( /\ tcp_pcb_get(tcpPcbs, id) # 0
                  /\ tcpPcbs[id + 1].state = "ESTABLISHED"
                  /\ TcpReceiveCall(t, id, size) )
                => TcpReceiveDone(t, tcpPcbs[id + 1], id + 1, size,
                                  tcpPcbs[id + 1].interrupted)
          /\ ( /\ tcpThreads[t].op = "receive"
               /\ tcpPcbs[tcpThreads[t].pcb].state = "ESTABLISHED"
               /\ TcpReceiveWoken(t) )
             => IF tcpPcbs[tcpThreads[t].pcb].interrupted
                THEN /\ tcpRes'.done /\ tcpRes'.ret = -1 /\ tcpRes'.eintr
                     /\ tcpPcbs'[tcpThreads[t].pcb].buf = tcpPcbs[tcpThreads[t].pcb].buf
                     /\ tcpPcbs'[tcpThreads[t].pcb].rcv_wnd
                           = tcpPcbs[tcpThreads[t].pcb].rcv_wnd
                ELSE TcpReceiveDone(t, tcpPcbs[tcpThreads[t].pcb], tcpThreads[t].pcb,
                                    tcpThreads[t].size, FALSE) ]_vars

\* tcp_receive with room for 2 bytes has just returned the first 2 of 5
\* buffered bytes and the other 3 are at the front of the buffer
C35_Witness ==
    /\ tcpRes.done
    /\ tcpRes.op = "receive"
    /\ tcpRes.ret = 2
    /\ tcpRes.data = << 0, 1 >>
    /\ tcpPcbs[1].state = "ESTABLISHED"
    /\ tcpPcbs[1].buf = << 2, 3, 4 >>
    /\ tcpPcbs[1].rcv_wnd = TcpBufSize - 3

\* the payload bytes of a sequence of segments
RECURSIVE TcpPayloadBytes(_)
TcpPayloadBytes(out) ==
    IF out = << >> THEN 0 ELSE out[1].len + TcpPayloadBytes(Tail(out))

\* a step of a tcp_send call of thread t on block p (number i) that had
\* sent sent0 bytes before the step: the count the call returns, or goes
\* to sleep with, is sent0 plus the payload bytes the step handed to IP,
\* and snd.nxt has advanced by those bytes; EINTR is returned only when
\* nothing was sent
TcpSendCounts(t, i, p, sent0) ==
    /\ (tcpRes'.done /\ tcpRes'.ret >= 0) =>
          /\ tcpRes'.ret = sent0 + TcpPayloadBytes(tcpOut')
          /\ tcpPcbs'[i].snd_nxt = Add32(p.snd_nxt, U32(TcpPayloadBytes(tcpOut')))
    /\ (~tcpRes'.done /\ tcpThreads'[t].op = "send") =>
          /\ tcpThreads'[t].sent = sent0 + TcpPayloadBytes(tcpOut')
          /\ tcpPcbs'[i].snd_nxt = Add32(p.snd_nxt, U32(TcpPayloadBytes(tcpOut')))
          /\ ~p.interrupted
    /\ (tcpRes'.done /\ tcpRes'.eintr) =>
          /\ p.interrupted
          /\ sent0 + TcpPayloadBytes(tcpOut') = 0

\* C36: whenever tcp_send returns a value that is not negative, the value
\* is the number of payload bytes the call has handed to IP, and snd.nxt
\* has advanced by that number; a call whose wait for send window is
\* interrupted returns the bytes sent so far if that is at least one, and
\* -1 with EINTR if it is none.
C36_SendCount ==
    [][ \A t \in TcpAppThreads :
          /\ \A id \in TcpCallIds, ipOk \in BOOLEAN :
                ( /\ tcp_pcb_get(tcpPcbs, id) # 0
                  /\ TcpSendCall(t, id, 5, ipOk) )
                => TcpSendCounts(t, id + 1, tcpPcbs[id + 1], 0)
          /\ ( /\ tcpThreads[t].op = "send"
               /\ TcpSendWoken(t) )
             => /\ TcpSendCounts(t, tcpThreads[t].pcb, tcpPcbs[tcpThreads[t].pcb],
                                 tcpThreads[t].sent)
                /\ tcpPcbs[tcpThreads[t].pcb].interrupted =>
                      /\ tcpRes'.done
                      /\ tcpOut' = << >>
                      /\ IF tcpThreads[t].sent = 0
                         THEN tcpRes'.ret = -1 /\ tcpRes'.eintr
                         ELSE tcpRes'.ret = tcpThreads[t].sent /\ ~tcpRes'.eintr ]_vars

\* a tcp_send of 5 bytes that slept after 3 bytes has been interrupted and
\* has just returned 3
C36_Witness ==
    /\ tcpRes.done
    /\ tcpRes.op = "send"
    /\ tcpRes.ret = 3
    /\ tcpOut = << >>
    /\ tcpPcbs[1].state = "ESTABLISHED"
    /\ Sub32(tcpPcbs[1].snd_nxt, tcpPcbs[1].iss) = U32(4)

\* an entry for an address has come into being, or has gone, between the
\* caches cs and cs2
ArpCreated(cs, cs2) ==
    \E j \in 1..ArpCacheSize :
        cs2[j].state # "FREE" /\ (cs[j].state = "FREE" \/ cs[j].pa # cs2[j].pa)
ArpEvicted(cs, cs2) ==
    \E j \in 1..ArpCacheSize :
        cs[j].state # "FREE" /\ (cs2[j].state = "FREE" \/ cs2[j].pa # cs[j].pa)

\* C37: the first critical section of arp_input only refreshes an entry
\* that exists: it creates and evicts none; the handler goes on to its
\* second part only for a message whose target protocol address is the
\* unicast address of the receiving interface, and creates an entry there
\* (evicting one if the cache is full) only if its first part updated none.
C37_InsertOnlyForTarget ==
    [][ /\ \A dev \in ArpInputDevs, in \in ArpInputs :
              ( /\ arpPend = << >>
                /\ ipRes' = ipRes
                /\ timerLast' = timerLast
                /\ ArpInputUpdate(dev, in) )
              => /\ ~ArpCreated(caches, caches')
                 /\ ~ArpEvicted(caches, caches')
                 /\ arpPend' # << >> =>
                       /\ \E f \in net_device_get_iface(ifaces, dev) :
                             f.unicast = in[1].tpa
                       /\ arpPend'[1].msg = in[1]
                       /\ arpPend'[1].merge = (arp_cache_select(caches, in[1].spa) # 0)
                 /\ (\A f \in net_device_get_iface(ifaces, dev) : f.unicast # in[1].tpa)
                       => arpPend' = << >>
        /\ \A txOk \in BOOLEAN :
              ( /\ arpPend # << >>
                /\ ArpInputInsert(txOk) )
              => /\ (ArpCreated(caches, caches') \/ ArpEvicted(caches, caches'))
                       => ~arpPend[1].merge
                 /\ \E f \in net_device_get_iface(ifaces, arpPend[1].dev) :
                       f.unicast = arpPend[1].msg.tpa ]_vars

\* the cache holds an entry for 192.0.2.9, an address the host never asks
\* for: only arp_input can have created the entry, for a message from
\* that station to the address of the interface
C37_Witness ==
    /\ arpPend = << >>
    /\ \E j \in 1..ArpCacheSize :
          caches[j].state = "RESOLVED" /\ caches[j].pa = << 192, 0, 2, 9 >>

\* C38: every frame a call of ip_output hands to a device goes to the
\* device of the route looked up for dst; a datagram carries dst as its
\* destination and the unicast address of the route's interface as its
\* source, and its link-layer destination is resolved from the route's
\* nexthop if that is not 0.0.0.0 and from dst otherwise: it is the
\* hardware address of the cache entry of that address (the broadcast
\* address of the device for a broadcast address, none on a device without
\* ARP), and an ARP request that is sent instead asks for that address.
C38_OutputRoute ==
    (ipRes.done /\ txFrames # << >>) =>
        /\ ip_route_lookup(routes, ipRes.dst) # 0
        /\ \E route \in { routes[ip_route_lookup(routes, ipRes.dst)] } :
           \E hop \in { IF route.nexthop # IP_ADDR_ANY THEN route.nexthop ELSE ipRes.dst } :
           \A k \in 1..Len(txFrames) :
              /\ txFrames[k].dev = route.iface.dev
              /\ txFrames[k].type = "IP" =>
                    /\ txFrames[k].data.dst = ipRes.dst
                    /\ txFrames[k].data.src = route.iface.unicast
                    /\ IF "NEED_ARP" \notin NetDevice(route.iface.dev).flags
                       THEN txFrames[k].dst = ETHER_ADDR_ANY
                       ELSE IF hop = route.iface.broadcast \/ hop = IP_ADDR_BROADCAST
                       THEN txFrames[k].dst = NetDevice(route.iface.dev).broadcast
                       ELSE /\ arp_cache_select(caches, hop) # 0
                            /\ caches[arp_cache_select(caches, hop)].state = "RESOLVED"
                            /\ txFrames[k].dst = caches[arp_cache_select(caches, hop)].ha
              /\ txFrames[k].type = "ARP" =>
                    /\ txFrames[k].data.op = ARP_OP_REQUEST
                    /\ txFrames[k].data.tpa = hop
                    /\ txFrames[k].data.spa = route.iface.unicast

\* a datagram for 8.8.8.8 has been handed to net0, addressed to the
\* hardware address cached for the gateway 192.0.2.1
C38_Witness ==
    /\ ipRes.done
    /\ ipRes.dst = << 8, 8, 8, 8 >>
    /\ Len(txFrames) = 1
    /\ txFrames[1].type = "IP"
    /\ txFrames[1].dev = "net0"
    /\ txFrames[1].data.dst = << 8, 8, 8, 8 >>
    /\ txFrames[1].data.src = << 192, 0, 2, 2 >>
    /\ arp_cache_select(caches, << 192, 0, 2, 1 >>) # 0
    /\ arp_cache_select(caches, << 8, 8, 8, 8 >>) = 0

\* C39: between critical sections the state of a block only moves from
\* FREE to LISTEN (or to CLOSED) in a call of tcp_open_rfc793 that
\* allocates it, from CLOSED to LISTEN, from LISTEN to SYN_RECEIVED, from
\* SYN_RECEIVED to ESTABLISHED, and from a state other than FREE to FREE or
\* to CLOSED on its way to FREE; no block is ever in SYN_SENT, FIN_WAIT1,
\* FIN_WAIT2, CLOSING, TIME_WAIT, CLOSE_WAIT or LAST_ACK, and none goes
\* back from SYN_RECEIVED or ESTABLISHED to LISTEN.
C39_StateMoves ==
    [][ \A i \in 1..TcpPcbSize :
          /\ tcpPcbs'[i].state \in { "FREE", "CLOSED", "LISTEN", "SYN_RECEIVED", "ESTABLISHED" }
          /\ \/ tcpPcbs'[i].state = tcpPcbs[i].state
             \/ /\ tcpPcbs[i].state = "FREE"
                /\ tcpPcbs'[i].state \in { "CLOSED", "LISTEN" }
                /\ \E t \in TcpThreads :
                      /\ tcpThreads[t].op = "idle"
                      /\ tcpThreads'[t].op \in { "open", "destroy" }
                      /\ tcpThreads'[t].pcb = i
             \/ tcpPcbs[i].state = "CLOSED" /\ tcpPcbs'[i].state = "LISTEN"
             \/ tcpPcbs[i].state = "LISTEN" /\ tcpPcbs'[i].state = "SYN_RECEIVED"
             \/ tcpPcbs[i].state = "SYN_RECEIVED" /\ tcpPcbs'[i].state = "ESTABLISHED"
             \/ tcpPcbs[i].state # "FREE" /\ tcpPcbs'[i].state \in { "CLOSED", "FREE" } ]_vars

\* tcp_open_rfc793 has just returned the identifier of a block that went
\* through LISTEN and SYN_RECEIVED and is ESTABLISHED
C39_Witness ==
    /\ tcpRes.done
    /\ tcpRes.op = "open"
    /\ tcpRes.ret = 0
    /\ tcpPcbs[1].state = "ESTABLISHED"
    /\ tcpPcbs[1].irs # tcpPcbs[1].iss

\* C40: no thread keeps the TCP mutex in a wait that cannot end: whenever
\* the last step has been taken note of, the mutex can be taken, so that
\* the interrupt thread can enter tcp_input with the next segment
C40_NoDeadlock ==
    (~tcpRes.done /\ tcpOut = << >>) => ENABLED tcp_input

====
